---- MODULE Spec2Model ----
(***************************************************************************)
(* Model of the VideoCore IV mailbox library of                            *)
(* examples/006_Zero_Copy_Shared_Memory (mailbox.c, mailbox.h): the        *)
(* property channel, the firmware memory allocator behind it, the /dev/mem *)
(* mapper and the gpu_mem_t buffer built from them.                        *)
(*                                                                         *)
(* A uint32_t is a pair <<hi, lo>> of 16-bit halves (value hi*2^16 + lo),  *)
(* so that the arithmetic keeps its 32-bit width.                          *)
(***************************************************************************)
EXTENDS Integers, Sequences, FiniteSets, TLC

(* ------------------------------------------------------------------ *)
(* Bounds of the model                                                 *)
(* ------------------------------------------------------------------ *)

\* number of memory handles the firmware can have allocated at a time
MaxHandle == 1

\* number of mmap regions the process can hold at a time
MaxMaps == 1

\* number of 32-bit words of the buffer the pattern is written to
MaxWords == 3

\* transpose_matrix is called on matrices of dimension 1 .. MaxN
MaxN == 8

\* the OpenMP team has 1 .. MaxThreads threads
MaxThreads == 2

(* ------------------------------------------------------------------ *)
(* uint32_t arithmetic                                                 *)
(* ------------------------------------------------------------------ *)

Half == 65536

U32(hi, lo) == <<hi, lo>>

Zero == U32(0, 0)

One == U32(0, 1)

\* (uint32_t)-1
AllOnes == U32(65535, 65535)

Add32(a, b) ==
    LET lo == a[2] + b[2]
        hi == a[1] + b[1] + (lo \div Half)
    IN  U32(hi % Half, lo % Half)

Not32(a) == U32(Half - 1 - a[1], Half - 1 - a[2])

Sub32(a, b) == Add32(a, Add32(Not32(b), One))

RECURSIVE And16(_, _, _)
And16(x, y, n) ==
    IF n = 0 THEN 0
    ELSE (IF x % 2 = 1 /\ y % 2 = 1 THEN 1 ELSE 0)
         + 2 * And16(x \div 2, y \div 2, n - 1)

And32(a, b) == U32(And16(a[1], b[1], 16), And16(a[2], b[2], 16))

\* a | b
Or32(a, b) ==
    U32(a[1] + b[1] - And16(a[1], b[1], 16),
        a[2] + b[2] - And16(a[2], b[2], 16))

\* a << 30
Shl30(a) == U32((a[2] % 4) * 16384, 0)

\* a >> 30
Shr30(a) == U32(0, a[1] \div 16384)

\* a <= b
Leq32(a, b) == a[1] < b[1] \/ (a[1] = b[1] /\ a[2] <= b[2])

\* a + b without the reduction modulo 2^32: <<carry, hi16, lo16>>
Sum(a, b) ==
    LET lo == a[2] + b[2]
        hi == a[1] + b[1] + (lo \div Half)
    IN  <<hi \div Half, hi % Half, lo % Half>>

(* ------------------------------------------------------------------ *)
(* Constants of mailbox.h / mailbox.c                                  *)
(* ------------------------------------------------------------------ *)

MBOX_INVALID_HANDLE == -1

PAGE_SIZE == U32(0, 4096)

REQUEST_CODE == U32(0, 0)

\* 0x80000000
RESPONSE_OK == U32(32768, 0)

TAG_END == U32(0, 0)

\* 0x0003000C
TAG_ALLOCATE_MEMORY == U32(3, 12)

\* 0x0003000D
TAG_LOCK_MEMORY == U32(3, 13)

\* 0x0003000E
TAG_UNLOCK_MEMORY == U32(3, 14)

\* 0x0003000F
TAG_RELEASE_MEMORY == U32(3, 15)

\* 0x80000001
RESPONSE_ERROR == U32(32768, 1)

MEM_FLAG_DIRECT == U32(0, 4)

MEM_FLAG_COHERENT == U32(0, 8)

\* MEM_FLAG_DIRECT | MEM_FLAG_COHERENT
MEM_FLAG_L1_NONALLOCATING == Or32(MEM_FLAG_DIRECT, MEM_FLAG_COHERENT)

MEM_FLAG_ZERO == U32(0, 16)

NULL == Zero

\* (void *)-1
MAP_FAILED == AllOnes

\* static inline uint32_t align_up(uint32_t value, uint32_t alignment)
align_up(value, alignment) ==
    And32(Sub32(Add32(value, alignment), One), Not32(Sub32(alignment, One)))

\* bus_to_phys with a mask that keeps bit 30
bus_to_phys_keeps_bit30(bus_addr) == And32(bus_addr, U32(32767, 65535))

\* bus_addr & 0x3FFFFFFF
bus_to_phys(bus_addr) == And32(bus_addr, U32(16383, 65535))

\* (bus_addr >> 30) & 0x3
bus_get_alias(bus_addr) == And32(Shr30(bus_addr), U32(0, 3))

\* (phys_addr & 0x3FFFFFFF) | (alias << 30)
phys_to_bus(phys_addr, alias) ==
    Or32(And32(phys_addr, U32(16383, 65535)), Shl30(alias))


(* ------------------------------------------------------------------ *)
(* State                                                               *)
(* ------------------------------------------------------------------ *)

VARIABLES
    mbox,     \* the caller's mbox_handle_t (main.c: mbox = mbox_open())
    vcio,     \* descriptors of the process that are open on /dev/vcio
    mem,      \* the caller's gpu_mem_t
    fw,       \* firmware allocator: state of every memory handle
    maps,     \* mmap regions of the process
    reqs,     \* system calls issued by the latest call on the gpu_mem_t
    rt,       \* the latest property round trip of a direct mem_* call
    htrace,   \* per handle: requests gpu_mem_alloc and gpu_mem_free sent
              \* for it since the firmware handed it out
    last,     \* latest gpu_mem_alloc / gpu_mem_free on the gpu_mem_t
    prev,     \* the call on the gpu_mem_t before that one
    pre,      \* firmware allocator and mappings when the latest call began
    rc,       \* return value of the latest library call
    chan,     \* handle values given to mbox_close, and what the handle of
              \* the latest direct mem_* call was at the time of the call
    calc,     \* the latest evaluation of a function on given arguments
    life,     \* the calls made on the gpu_mem_t so far: whether every
              \* release succeeded, whether a live buffer was overwritten
    run,      \* main() of the benchmark: where it is, the calls it has made
    mm,       \* the matrix routine being executed: its arrays and the
              \* position of its loops (of every thread of the team)
    launch    \* the QPU and the kernel launch in progress

vars == <<mbox, vcio, mem, fw, maps, reqs, rt, htrace, last, prev, pre, rc,
          chan, calc, life, run, mm, launch>>

(* ------------------------------------------------------------------ *)
(* Environment: firmware allocator, /dev/vcio, /dev/mem                *)
(* ------------------------------------------------------------------ *)

\* the handles the firmware hands out (0 is its failure value)
Handles == {U32(0, h) : h \in 1..MaxHandle}

\* caching alias selected by the allocation flags (bits 2..3):
\* normal 0x0, direct 0xC, coherent 0x4, L1-non-allocating 0x8
FwAlias(flags) ==
    LET sel == And32(flags, U32(0, 12))[2]
    IN  CASE sel = 0  -> 0
          [] sel = 4  -> 3
          [] sel = 8  -> 1
          [] sel = 12 -> 2

\* bus address of the block behind handle h: the alias in the top two
\* bits; the physical address in the rest is 0x3E000000 + h * 0x1000 for
\* an alignment of whole pages, and the first multiple of a smaller
\* alignment after that page boundary
FwBus(h, flags, alignment) ==
    U32(FwAlias(flags) * 16384 + 15872,
        h[2] * 4096 + (IF alignment[1] = 0 THEN alignment[2] % 4096 ELSE 0))

FwFree == [st |-> "free", flags |-> Zero, align |-> Zero]

\* page-aligned addresses at which the kernel places a mapping:
\* 0x76F00000, 0x76E00000, ... (top down, 1 MiB apart)
VirtBases == {U32(30448 - 16 * k, 0) : k \in 0..(MaxMaps - 1)}

\* the first element of a set of uint32_t in numeric order
Lowest(S) ==
    CHOOSE x \in S : \A y \in S :
        x[1] < y[1] \/ (x[1] = y[1] /\ x[2] <= y[2])

\* the last element of a set of uint32_t in numeric order
Highest(S) ==
    CHOOSE x \in S : \A y \in S :
        x[1] > y[1] \/ (x[1] = y[1] /\ x[2] >= y[2])

FwFailed(fw0, val) ==
    [code |-> RESPONSE_OK, val |-> val, fw |-> fw0, done |-> FALSE]

\* the firmware does not process the message: the response code is the
\* error code and the value words are left as sent
FwRejected(fw0, req) ==
    {[code |-> RESPONSE_ERROR, val |-> req[1], fw |-> fw0, done |-> FALSE]}

\* Tag 0x0003000C: size, alignment, flags -> handle (0 on failure);
\* the firmware hands out its lowest unused handle
FwAllocate(fw0, req) ==
    LET unused == {x \in Handles : fw0[x].st = "free"}
    IN  {FwFailed(fw0, Zero)} \cup
        {[code |-> RESPONSE_OK, val |-> h,
          fw |-> [fw0 EXCEPT ![h] = [st |-> "alloc", flags |-> req[3],
                                    align |-> req[2]]],
          done |-> TRUE] :
            h \in IF unused = {} THEN {} ELSE {Lowest(unused)}}

\* Tag 0x0003000D: handle -> bus address (0 on failure)
FwLock(fw0, req) ==
    {FwFailed(fw0, Zero)} \cup
    IF req[1] \in Handles /\ fw0[req[1]].st # "free"
    THEN {[code |-> RESPONSE_OK, val |-> FwBus(req[1], fw0[req[1]].flags,
                                             fw0[req[1]].align),
           fw |-> [fw0 EXCEPT ![req[1]].st = "locked"], done |-> TRUE]}
    ELSE {}

\* Tag 0x0003000E: handle -> status (0 = success)
FwUnlock(fw0, req) ==
    {FwFailed(fw0, One)} \cup
    IF req[1] \in Handles /\ fw0[req[1]].st = "locked"
    THEN {[code |-> RESPONSE_OK, val |-> Zero,
           fw |-> [fw0 EXCEPT ![req[1]].st = "alloc"], done |-> TRUE]}
    ELSE {}

\* Tag 0x0003000F: handle -> status (0 = success)
FwRelease(fw0, req) ==
    {FwFailed(fw0, One)} \cup
    IF req[1] \in Handles /\ fw0[req[1]].st # "free"
    THEN {[code |-> RESPONSE_OK, val |-> Zero,
           fw |-> [fw0 EXCEPT ![req[1]] = FwFree], done |-> TRUE]}
    ELSE {}

Firmware(fw0, op, req) ==
    FwRejected(fw0, req) \cup
    CASE op = "alloc"  -> FwAllocate(fw0, req)
      [] op = "lock"   -> FwLock(fw0, req)
      [] op = "unlock" -> FwUnlock(fw0, req)
      [] op = "free"   -> FwRelease(fw0, req)

\* ioctl(mbox, IOCTL_MBOX_PROPERTY, buf): -1 with the buffer untouched
\* (EBADF when mbox is no open descriptor, or a driver error), else the
\* firmware's reply written in place
ioctl(w, fd, op, req) ==
    {[ret |-> -1, code |-> REQUEST_CODE, val |-> req[1],
      fw |-> w.fw, done |-> FALSE]} \cup
    IF fd \in w.vcio
    THEN {[ret |-> 0, code |-> f.code, val |-> f.val,
           fw |-> f.fw, done |-> f.done] : f \in Firmware(w.fw, op, req)}
    ELSE {}

(* ------------------------------------------------------------------ *)
(* Mailbox interface                                                   *)
(* ------------------------------------------------------------------ *)

\* mbox_property without the check for MBOX_INVALID_HANDLE
mbox_property_unguarded(w, h, op, req) ==
    {[ret |-> IF i.ret < 0 THEN -1 ELSE 0, sent |-> TRUE,
      code |-> i.code, val |-> i.val, fw |-> i.fw, done |-> i.done] :
        i \in ioctl(w, h, op, req)}

\* int mbox_property(mbox_handle_t mbox, void *buf); buf is the tag with
\* its request words, the reply is buf[1] (code) and buf[5] (val)
mbox_property(w, h, op, req) ==
    IF h = MBOX_INVALID_HANDLE
    THEN {[ret |-> -1, sent |-> FALSE, code |-> REQUEST_CODE,
           val |-> req[1], fw |-> w.fw, done |-> FALSE]}
    ELSE {[ret |-> IF i.ret < 0 THEN -1 ELSE 0, sent |-> TRUE,
           code |-> i.code, val |-> i.val, fw |-> i.fw, done |-> i.done] :
             i \in ioctl(w, h, op, req)}

\* the record of one system call in reqs: sent tells that the call was
\* issued, done that the firmware (or the kernel) carried it out
Event(op, arg, len, p) ==
    [op |-> op, arg |-> arg, len |-> len, sent |-> p.sent, done |-> p.done]

\* the world after a property round trip p for tag op with first word arg
AfterRequest(w, op, arg, p) ==
    [w EXCEPT
        !.fw = p.fw,
        !.reqs = Append(@, Event(op, arg, Zero, p)),
        !.htrace =
            IF op = "alloc"
            THEN IF p.done
                 THEN [@ EXCEPT ![p.val] = <<[op |-> op, done |-> TRUE]>>]
                 ELSE @
            ELSE IF p.sent /\ arg \in Handles
                 THEN [@ EXCEPT ![arg] =
                          Append(@, [op |-> op, done |-> p.done])]
                 ELSE @]

(* ------------------------------------------------------------------ *)
(* Memory management functions                                         *)
(* Each returns the set of its possible outcomes [ret, w].             *)
(* ------------------------------------------------------------------ *)

\* the words buf[0] .. buf[8] that mem_alloc sets before the call of
\* mbox_property, as a sequence (word k of the message is element k + 1)
mem_alloc_buf(size, alignment, flags) ==
    <<U32(0, 12 * 4), REQUEST_CODE, TAG_ALLOCATE_MEMORY, U32(0, 12),
      U32(0, 12), size, alignment, flags, TAG_END>>

\* the words buf[0] .. buf[6] that mem_lock, mem_unlock and mem_free set
handle_buf(tag, handle) ==
    <<U32(0, 7 * 4), REQUEST_CODE, tag, U32(0, 4), U32(0, 4), handle,
      TAG_END>>

\* the request the firmware serves for a tag identifier
TagOp(tag) ==
    CASE tag = TAG_ALLOCATE_MEMORY -> "alloc"
      [] tag = TAG_LOCK_MEMORY     -> "lock"
      [] tag = TAG_UNLOCK_MEMORY   -> "unlock"
      [] tag = TAG_RELEASE_MEMORY  -> "free"

\* the value words of the tag record of a message: buf[5] up to the end tag
ValueWords(buf) == SubSeq(buf, 6, Len(buf) - 1)

\* uint32_t mem_alloc(mbox, size, alignment, flags)
mem_alloc(w, h, size, alignment, flags) ==
    LET buf == mem_alloc_buf(size, alignment, flags)
    IN  {LET ret == IF p.ret < 0 THEN Zero
                    ELSE IF p.code # RESPONSE_OK THEN Zero
                    ELSE p.val
         IN  [ret |-> ret, p |-> p, buf |-> buf,
              w |-> AfterRequest(w, TagOp(buf[3]), buf[6], p)] :
            p \in mbox_property(w, h, TagOp(buf[3]), ValueWords(buf))}

\* mem_lock without the check of the response code
mem_lock_unchecked(w, h, handle) ==
    LET buf == handle_buf(TAG_LOCK_MEMORY, handle)
    IN  {LET ret == IF p.ret < 0 THEN Zero ELSE p.val
         IN  [ret |-> ret, p |-> p, buf |-> buf,
              w |-> AfterRequest(w, TagOp(buf[3]), buf[6], p)] :
            p \in mbox_property(w, h, TagOp(buf[3]), ValueWords(buf))}

\* uint32_t mem_lock(mbox, handle)
mem_lock(w, h, handle) ==
    LET buf == handle_buf(TAG_LOCK_MEMORY, handle)
    IN  {LET ret == IF p.ret < 0 THEN Zero
                    ELSE IF p.code # RESPONSE_OK THEN Zero
                    ELSE p.val
         IN  [ret |-> ret, p |-> p, buf |-> buf,
              w |-> AfterRequest(w, TagOp(buf[3]), buf[6], p)] :
            p \in mbox_property(w, h, TagOp(buf[3]), ValueWords(buf))}

\* uint32_t mem_unlock(mbox, handle)
mem_unlock(w, h, handle) ==
    LET buf == handle_buf(TAG_UNLOCK_MEMORY, handle)
    IN  {LET ret == IF p.ret < 0 THEN AllOnes ELSE p.val
         IN  [ret |-> ret, p |-> p, buf |-> buf,
              w |-> AfterRequest(w, TagOp(buf[3]), buf[6], p)] :
            p \in mbox_property(w, h, TagOp(buf[3]), ValueWords(buf))}

\* uint32_t mem_free(mbox, handle)
mem_free(w, h, handle) ==
    LET buf == handle_buf(TAG_RELEASE_MEMORY, handle)
    IN  {LET ret == IF p.ret < 0 THEN AllOnes ELSE p.val
         IN  [ret |-> ret, p |-> p, buf |-> buf,
              w |-> AfterRequest(w, TagOp(buf[3]), buf[6], p)] :
            p \in mbox_property(w, h, TagOp(buf[3]), ValueWords(buf))}

(* ------------------------------------------------------------------ *)
(* Memory mapping functions                                            *)
(* ------------------------------------------------------------------ *)

\* a system call that is not a property request, as a round trip record
Syscall(ok) == [sent |-> TRUE, done |-> ok]

\* mmap(NULL, map_size, PROT_READ | PROT_WRITE, MAP_SHARED, fd, page_base):
\* MAP_FAILED (always for a length of 0), or a fresh page-aligned region
\* below the existing ones
mmap(w, map_size, page_base, sync) ==
  LET unused == {v \in VirtBases : \A m \in w.maps : m.addr # v}
  IN
    {[mem |-> MAP_FAILED, w |-> [w EXCEPT !.reqs =
        Append(@, Event("mmap", page_base, map_size,
                        Syscall(FALSE)))]]} \cup
    IF map_size # Zero
    THEN {[mem |-> a,
           w |-> [w EXCEPT
                    !.maps = @ \cup {[addr |-> a, len |-> map_size,
                                      phys |-> page_base, sync |-> sync]},
                    !.reqs = Append(@, Event("mmap", page_base, map_size,
                                             Syscall(TRUE)))]] :
            a \in IF unused = {} THEN {} ELSE {Highest(unused)}}
    ELSE {}

\* munmap(page_addr, map_size): -1, or 0 with the region gone
munmap(w, page_addr, map_size) ==
    {[ret |-> -1, w |-> [w EXCEPT !.reqs =
        Append(@, Event("munmap", page_addr, map_size,
                        Syscall(FALSE)))]]} \cup
    IF map_size # Zero
    THEN {[ret |-> 0,
           w |-> [w EXCEPT
                    !.maps = {m \in @ : ~(m.addr = page_addr
                                          /\ m.len = map_size)},
                    !.reqs = Append(@, Event("munmap", page_addr, map_size,
                                             Syscall(TRUE)))]]}
    ELSE {}

\* void *mapmem_uncached(uint32_t base, uint32_t size, int uncached)
mapmem_uncached(w, base, size, uncached) ==
    LET page_base   == And32(base, Not32(Sub32(PAGE_SIZE, One)))
        page_offset == Sub32(base, page_base)
        map_size    == align_up(Add32(size, page_offset), PAGE_SIZE)
    IN  \* open(DEV_MEM, flags) < 0
        {[ret |-> NULL, w |-> w]} \cup
        {[ret |-> IF r.mem = MAP_FAILED THEN NULL
                  ELSE Add32(r.mem, page_offset),
          w |-> r.w] : r \in mmap(w, map_size, page_base, uncached # 0)}

\* unmapmem taking the length from the size alone
unmapmem_without_offset(w, virt_addr, size) ==
    IF virt_addr = NULL
    THEN {[w |-> w]}
    ELSE LET page_addr == And32(virt_addr, Not32(Sub32(PAGE_SIZE, One)))
             map_size  == align_up(size, PAGE_SIZE)
         IN  {[w |-> r.w] : r \in munmap(w, page_addr, map_size)}

\* void unmapmem(void *virt_addr, uint32_t size)
unmapmem(w, virt_addr, size) ==
    IF virt_addr = NULL
    THEN {[w |-> w]}
    ELSE LET page_addr   == And32(virt_addr, Not32(Sub32(PAGE_SIZE, One)))
             page_offset == Sub32(virt_addr, page_addr)
             map_size    == align_up(Add32(size, page_offset), PAGE_SIZE)
         IN  {[w |-> r.w] : r \in munmap(w, page_addr, map_size)}

(* ------------------------------------------------------------------ *)
(* High-level GPU memory API                                           *)
(* Each step maps [ret, mem, w] to the set of its possible outcomes.   *)
(* ------------------------------------------------------------------ *)

\* the lock rollback leaving the released handle in the struct
gpu_mem_alloc_lock_failed_keeps_handle(w, m) ==
    {[ret |-> -1, mem |-> m, w |-> f.w] :
        f \in mem_free(w, m.mbox, m.mem_handle)}

\* the lock rollback without the release of the handle
gpu_mem_alloc_lock_failed_no_free(w, m) ==
    {[ret |-> -1, mem |-> [m EXCEPT !.mem_handle = Zero], w |-> w]}

\* gpu_mem_alloc, mem_lock failed: release the handle
gpu_mem_alloc_lock_failed(w, m) ==
    {[ret |-> -1, mem |-> [m EXCEPT !.mem_handle = Zero], w |-> f.w] :
        f \in mem_free(w, m.mbox, m.mem_handle)}

\* the map rollback leaving the bus address in the struct
gpu_mem_alloc_map_failed_keeps_bus(w, m) ==
    UNION {{[ret |-> -1, mem |-> [m EXCEPT !.mem_handle = Zero],
             w |-> f.w] : f \in mem_free(u.w, m.mbox, m.mem_handle)} :
        u \in mem_unlock(w, m.mbox, m.mem_handle)}

\* the map rollback leaving the released handle in the struct
gpu_mem_alloc_map_failed_keeps_handle(w, m) ==
    UNION {{[ret |-> -1, mem |-> [m EXCEPT !.bus_addr = Zero],
             w |-> f.w] : f \in mem_free(u.w, m.mbox, m.mem_handle)} :
        u \in mem_unlock(w, m.mbox, m.mem_handle)}

\* the map rollback releasing the handle without unlocking it
gpu_mem_alloc_map_failed_no_unlock(w, m) ==
    {[ret |-> -1,
      mem |-> [m EXCEPT !.mem_handle = Zero, !.bus_addr = Zero],
      w |-> f.w] : f \in mem_free(w, m.mbox, m.mem_handle)}

\* gpu_mem_alloc, mapmem_uncached failed: unlock and release the handle
gpu_mem_alloc_map_failed(w, m) ==
    UNION {{[ret |-> -1,
             mem |-> [m EXCEPT !.mem_handle = Zero, !.bus_addr = Zero],
             w |-> f.w] : f \in mem_free(u.w, m.mbox, m.mem_handle)} :
        u \in mem_unlock(w, m.mbox, m.mem_handle)}

\* gpu_mem_alloc, step 3: map to user space
gpu_mem_alloc_map(w, m) ==
    IF m.bus_addr = Zero
    THEN gpu_mem_alloc_lock_failed(w, m)
    ELSE LET phys_addr    == bus_to_phys(m.bus_addr)
             use_uncached == IF And32(m.flags, MEM_FLAG_DIRECT) # Zero
                             THEN 1 ELSE 0
         IN  UNION {LET mv == [m EXCEPT !.virt_addr = v.ret]
                    IN  IF mv.virt_addr = NULL
                        THEN gpu_mem_alloc_map_failed(v.w, mv)
                        ELSE {[ret |-> 0, mem |-> mv, w |-> v.w]} :
                 v \in mapmem_uncached(w, phys_addr, m.size, use_uncached)}

\* step 2 with a result of its own for a failed allocation
gpu_mem_alloc_lock_alloc_code(w, m) ==
    IF m.mem_handle = Zero
    THEN {[ret |-> -2, mem |-> m, w |-> w]}
    ELSE UNION {gpu_mem_alloc_map(l.w, [m EXCEPT !.bus_addr = l.ret]) :
                 l \in mem_lock(w, m.mbox, m.mem_handle)}

\* gpu_mem_alloc, step 2: lock to get the bus address
gpu_mem_alloc_lock(w, m) ==
    IF m.mem_handle = Zero
    THEN {[ret |-> -1, mem |-> m, w |-> w]}
    ELSE UNION {gpu_mem_alloc_map(l.w, [m EXCEPT !.bus_addr = l.ret]) :
                 l \in mem_lock(w, m.mbox, m.mem_handle)}

\* int gpu_mem_alloc(mbox, size, alignment, flags, gpu_mem_t *mem), mem # NULL
gpu_mem_alloc(w, h, size0, alignment, flags) ==
    LET size == align_up(size0, alignment)
        m0   == [mbox |-> h, mem_handle |-> Zero, bus_addr |-> Zero,
                 size |-> size, virt_addr |-> NULL, flags |-> flags]
    IN  UNION {gpu_mem_alloc_lock(a.w, [m0 EXCEPT !.mem_handle = a.ret]) :
                 a \in mem_alloc(w, h, size, alignment, flags)}

\* gpu_mem_free, step 1: unmap from user space
gpu_mem_free_unmap(s) ==
    IF s.mem.virt_addr # NULL
    THEN {[s EXCEPT !.mem.virt_addr = NULL, !.w = r.w] :
            r \in unmapmem(s.w, s.mem.virt_addr, s.mem.size)}
    ELSE {s}

\* step 2 forgetting the bus address without an unlock request
gpu_mem_free_unlock_skipped(s) ==
    {[s EXCEPT !.mem.bus_addr = Zero]}

\* gpu_mem_free, step 2: unlock
gpu_mem_free_unlock(s) ==
    IF s.mem.bus_addr # Zero
    THEN {[s EXCEPT !.ret = IF u.ret # Zero THEN -1 ELSE @,
                    !.mem.bus_addr = Zero, !.w = u.w] :
            u \in mem_unlock(s.w, s.mem.mbox, s.mem.mem_handle)}
    ELSE {s}

\* step 3 leaving the released handle in the struct
gpu_mem_free_free_keeps_handle(s) ==
    IF s.mem.mem_handle # Zero
    THEN {[s EXCEPT !.ret = IF f.ret # Zero THEN -1 ELSE @, !.w = f.w] :
            f \in mem_free(s.w, s.mem.mbox, s.mem.mem_handle)}
    ELSE {s}

\* gpu_mem_free, step 3: free
gpu_mem_free_free(s) ==
    IF s.mem.mem_handle # Zero
    THEN {[s EXCEPT !.ret = IF f.ret # Zero THEN -1 ELSE @,
                    !.mem.mem_handle = Zero, !.w = f.w] :
            f \in mem_free(s.w, s.mem.mbox, s.mem.mem_handle)}
    ELSE {s}

\* gpu_mem_free unlocking before it unmaps
gpu_mem_free_unlock_first(w, m) ==
    UNION {UNION {gpu_mem_free_free(s2) : s2 \in gpu_mem_free_unmap(s1)} :
             s1 \in gpu_mem_free_unlock([ret |-> 0, mem |-> m, w |-> w])}

\* int gpu_mem_free(gpu_mem_t *mem), mem # NULL
gpu_mem_free(w, m) ==
    UNION {UNION {gpu_mem_free_free(s2) : s2 \in gpu_mem_free_unlock(s1)} :
             s1 \in gpu_mem_free_unmap([ret |-> 0, mem |-> m, w |-> w])}

(* ------------------------------------------------------------------ *)
(* The program: calls of the library on one channel and one gpu_mem_t  *)
(* ------------------------------------------------------------------ *)

\* the arguments the caller passes to gpu_mem_alloc
Sizes == {Zero, U32(0, 100)}

Alignments == {U32(0, 4096)}

\* the descriptor open() returns while 0, 1 and 2 are the only ones in use
FirstFd == 3

FlagSets == {U32(0, 20), U32(0, 24)}

\* the world a library call starts from; reqs restarts with the call
World ==
    [fw |-> fw, maps |-> maps, reqs |-> <<>>, htrace |-> htrace,
     vcio |-> vcio]

NoCall == [fn |-> "none", ret |-> 0]

NoRoundTrip ==
    [op |-> "none", req |-> <<>>, ret |-> Zero, sent |-> FALSE, io |-> FALSE,
     code |-> REQUEST_CODE, val |-> Zero, done |-> FALSE]

\* no channel has been closed and no direct call made
NoChannelUse ==
    [ever |-> {}, now |-> {}, h |-> MBOX_INVALID_HANDLE,
     closed |-> FALSE, reopened |-> FALSE]

\* no function has been evaluated
NoCalc == [fn |-> "none"]

\* no call has been made on the gpu_mem_t
NoLife == [clean |-> TRUE, overwritten |-> FALSE]

\* the arrays and loop positions of no call
NoMatrixCall ==
    [fn |-> "none", pc |-> "none", n |-> 0, seed |-> 0, same |-> FALSE,
     B |-> <<>>, BT |-> <<>>, C |-> <<>>, th |-> <<>>,
     rows |-> <<>>]

MaxLaunches == 2

\* the kernel launches (one zero-copy buffer each)
Launches == 1..MaxLaunches

\* the status code of a failed execute request (0x80000000)
EXECUTE_FAILED == U32(32768, 0)

\* the output word before the launch (0xDEADBEEF) and the word the kernel
\* writes (0x1337)
OUTPUT_INITIAL == U32(57005, 48879)

OUTPUT_MAGIC == U32(0, 4919)

\* the bus address of the output sub-region of the buffer of launch l
OutputBus(l) == U32(65193 + l, 29184)

\* a launch before its buffer is prepared
NoBuffer ==
    [st |-> "Idle", code |-> "none", uniform |-> Zero, out |-> Zero,
     sent |-> 0, enabled |-> FALSE, rejected |-> FALSE, ret |-> Zero,
     err |-> Zero, valid |-> FALSE]

\* the device with no kernel dispatched
NoDispatch == [l |-> 0, code |-> "none", uniform |-> Zero]

\* no kernel launch has been made
NoLaunch ==
    [enabled |-> FALSE, dev |-> NoDispatch,
     b |-> [l \in Launches |-> NoBuffer]]

\* main() has not made its first call: pc is the call it makes next, bufs
\* has for every buffer a gpu_mem_alloc handed out the number of
\* gpu_mem_free calls made on it, held is the number of buffers not yet
\* given to gpu_mem_free when mbox_close was called
NotStarted ==
    [pc |-> "mbox_open", data_size |-> Zero, opens |-> 0, opened |-> FALSE,
     closes |-> 0, bufs |-> <<>>, held |-> 0]

Init ==
    /\ mbox = MBOX_INVALID_HANDLE
    /\ vcio = {}
    /\ mem = [mbox |-> 0, mem_handle |-> Zero, bus_addr |-> Zero,
              size |-> Zero, virt_addr |-> NULL, flags |-> Zero]
    /\ fw = [h \in Handles |-> FwFree]
    /\ maps = {}
    /\ reqs = <<>>
    /\ rt = NoRoundTrip
    /\ htrace = [h \in Handles |-> <<>>]
    /\ last = NoCall
    /\ prev = NoCall
    /\ pre = [fw |-> fw, maps |-> maps]
    /\ rc = 0
    /\ chan = NoChannelUse
    /\ calc = NoCalc
    /\ life = NoLife
    /\ run = NotStarted
    /\ mm = NoMatrixCall
    /\ launch = NoLaunch

\* mbox_handle_t mbox_open(void), called while no channel is open:
\* open() fails, or returns the lowest descriptor that is not in use
MboxOpen ==
    /\ vcio = {}
    /\ \/ mbox' = MBOX_INVALID_HANDLE /\ vcio' = vcio
       \/ mbox' = FirstFd /\ vcio' = {FirstFd}
    /\ rc' = mbox'
    /\ chan' = IF mbox' = MBOX_INVALID_HANDLE THEN chan
               ELSE [chan EXCEPT !.now = @ \ {mbox'}]
    /\ UNCHANGED <<mem, fw, maps, reqs, rt, htrace, last, prev, pre, calc,
                   life, run, mm, launch>>

mbox_close_leaves_open(fds, h) == fds

\* void mbox_close(mbox_handle_t mbox): the descriptors open afterwards
mbox_close(fds, h) ==
    IF h # MBOX_INVALID_HANDLE THEN fds \ {h} ELSE fds

\* mbox_close(mbox) in the program; the caller's variable keeps its value
MboxClose ==
    /\ vcio' = mbox_close(vcio, mbox)
    /\ chan' = IF mbox = MBOX_INVALID_HANDLE THEN chan
               ELSE [chan EXCEPT !.ever = @ \cup {mbox},
                                 !.now = @ \cup {mbox}]
    /\ UNCHANGED <<mbox, mem, fw, maps, reqs, rt, htrace, last, prev, pre,
                   rc, calc, life, run, mm, launch>>

\* every munmap, unlock and free among the requests e succeeded
Released(e) ==
    \A i \in 1..Len(e) : e[i].op \in {"munmap", "unlock", "free"} => e[i].done

\* the gpu_mem_t m holds a buffer that gpu_mem_free would release
Holds(m) ==
    m.mem_handle # Zero \/ m.bus_addr # Zero \/ m.virt_addr # NULL

\* the caller's view after a call on the gpu_mem_t with outcome r
Returned(fn, r) ==
    /\ mem' = r.mem
    /\ fw' = r.w.fw
    /\ maps' = r.w.maps
    /\ reqs' = r.w.reqs
    /\ htrace' = r.w.htrace
    /\ last' = [fn |-> fn, ret |-> r.ret]
    /\ prev' = last
    /\ pre' = [fw |-> fw, maps |-> maps]
    /\ rc' = r.ret
    /\ life' = [clean |-> life.clean /\ Released(r.w.reqs),
                overwritten |-> life.overwritten \/
                                (fn = "gpu_mem_alloc" /\ Holds(mem))]
    /\ UNCHANGED <<mbox, vcio, rt, chan, calc, mm, launch>>

\* gpu_mem_alloc(mbox, size, alignment, flags, &mem)
GpuMemAlloc ==
    \E size \in Sizes, alignment \in Alignments, flags \in FlagSets :
        \E r \in gpu_mem_alloc(World, mbox, size, alignment, flags) :
            Returned("gpu_mem_alloc", r) /\ UNCHANGED run

\* gpu_mem_free(&mem)
GpuMemFree ==
    \E r \in gpu_mem_free(World, mem) :
        Returned("gpu_mem_free", r) /\ UNCHANGED run

\* gpu_mem_alloc(..., NULL) and gpu_mem_free(NULL)
NullMem ==
    /\ rc' = -1
    /\ UNCHANGED <<mbox, vcio, mem, fw, maps, reqs, rt, htrace, last, prev,
                   pre, chan, calc, life, run, mm, launch>>

Next == MboxOpen \/ MboxClose \/ GpuMemAlloc \/ GpuMemFree \/ NullMem

Spec == Init /\ [][Next]_vars

(* ------------------------------------------------------------------ *)
(* The allocator called directly (README: mem_alloc, mem_lock, ...,    *)
(* mem_unlock, mem_free on a handle of the caller's choice)            *)
(* ------------------------------------------------------------------ *)

\* what a direct call leaves in rt: the request, the reply, the result
RoundTrip(op, req, r) ==
    [op |-> op, req |-> req, ret |-> r.ret, sent |-> r.p.sent,
     io |-> (r.p.ret = 0), code |-> r.p.code, val |-> r.p.val,
     done |-> r.p.done]

DirectCall(op, req, r) ==
    /\ rt' = RoundTrip(op, req, r)
    /\ fw' = r.w.fw
    /\ chan' = [chan EXCEPT !.h = mbox,
                            !.closed = mbox \in chan.ever,
                            !.reopened = mbox \in chan.ever \ chan.now]
    /\ UNCHANGED <<mbox, vcio, mem, maps, reqs, htrace, last, prev, pre, rc,
                   calc, life, run, mm, launch>>

MemAlloc ==
    \E size \in Sizes, alignment \in Alignments, flags \in FlagSets :
        \E r \in mem_alloc(World, mbox, size, alignment, flags) :
            DirectCall("alloc", <<size, alignment, flags>>, r)

MemLock ==
    \E handle \in Handles \cup {Zero} :
        \E r \in mem_lock(World, mbox, handle) :
            DirectCall("lock", <<handle>>, r)

MemUnlock ==
    \E handle \in Handles \cup {Zero} :
        \E r \in mem_unlock(World, mbox, handle) :
            DirectCall("unlock", <<handle>>, r)

MemFree ==
    \E handle \in Handles \cup {Zero} :
        \E r \in mem_free(World, mbox, handle) :
            DirectCall("free", <<handle>>, r)

NextTag ==
    MboxOpen \/ MboxClose \/ MemAlloc \/ MemLock \/ MemUnlock \/ MemFree

SpecTag == Init /\ [][NextTag]_vars

(* ------------------------------------------------------------------ *)
(* The program that calls the library without a channel: mbox_open has *)
(* failed or was never called, mbox is MBOX_INVALID_HANDLE throughout  *)
(* ------------------------------------------------------------------ *)

NextInvalid ==
    GpuMemAlloc \/ GpuMemFree \/ MemAlloc \/ MemLock \/ MemUnlock \/ MemFree

SpecInvalid == Init /\ [][NextInvalid]_vars

(* ------------------------------------------------------------------ *)
(* Single calls on given arguments: each action makes one call of the  *)
(* library in the process as it is after mbox_open, and records the    *)
(* arguments and the outcome in calc                                   *)
(* ------------------------------------------------------------------ *)

\* the process after mbox_open returned FirstFd: nothing allocated or mapped
FreshWorld ==
    [fw |-> [h \in Handles |-> FwFree], maps |-> {}, reqs |-> <<>>,
     htrace |-> [h \in Handles |-> <<>>], vcio |-> {FirstFd}]

\* the powers of two of uint32_t
PowersOfTwo ==
    {U32(0, 2^k) : k \in 0..15} \cup {U32(2^k, 0) : k \in 0..15}

\* sizes from 0 to 0xFFFFFFFF, around the page size and the wrap-around
WideSizes ==
    {Zero, One, U32(0, 100), U32(0, 4095), U32(0, 4096), U32(0, 4097),
     U32(1, 0), U32(32767, 65535), U32(32768, 1), U32(65535, 61440),
     U32(65535, 61441), U32(65535, 65521), AllOnes}

\* the four selections of the caching alias, with and without other bits
AllFlagSets ==
    {Or32(alias, other) :
        alias \in {Zero, MEM_FLAG_DIRECT, MEM_FLAG_COHERENT,
                   MEM_FLAG_L1_NONALLOCATING},
        other \in {Zero, One, MEM_FLAG_ZERO, U32(0, 32), U32(0, 64),
                   U32(0, 113)}}

\* arguments <<size, alignment, flags>> of gpu_mem_alloc
AllocArgs ==
    (WideSizes \X PowersOfTwo \X {Or32(MEM_FLAG_DIRECT, MEM_FLAG_ZERO)})
    \cup ({U32(0, 100)} \X {U32(0, 16), U32(0, 4096)} \X AllFlagSets)

\* the variables of the program, which a single call leaves alone
program == <<mbox, vcio, mem, fw, maps, reqs, rt, htrace, last, prev, pre,
             rc, chan, life, run, mm, launch>>

\* gpu_mem_alloc(mbox, size, alignment, flags, &mem) on a fresh gpu_mem_t
CalcGpuMemAlloc ==
    /\ calc = NoCalc
    /\ \E a \in AllocArgs :
          \E r \in gpu_mem_alloc(FreshWorld, FirstFd, a[1], a[2], a[3]) :
              calc' = [fn |-> "gpu_mem_alloc", size |-> a[1],
                       alignment |-> a[2], flags |-> a[3],
                       ret |-> r.ret, mem |-> r.mem, maps |-> r.w.maps]
    /\ UNCHANGED program

\* physical addresses at the start, inside and at the end of a page
PhysBases ==
    {Zero, U32(0, 4095), U32(15872, 4096), U32(15872, 4112),
     U32(15872, 8191), U32(16383, 65535), U32(65535, 61440), AllOnes}

\* mapmem_uncached(base, size, uncached), then unmapmem with the pointer
\* it returned and the same size
CalcMapUnmap ==
    /\ calc = NoCalc
    /\ \E base \in PhysBases, size \in WideSizes, uncached \in {0, 1} :
          \E r \in mapmem_uncached(FreshWorld, base, size, uncached) :
              \E u \in unmapmem(r.w, r.ret, size) :
                  calc' = [fn |-> "mapmem_uncached", base |-> base,
                           size |-> size, uncached |-> uncached,
                           ret |-> r.ret, maps |-> r.w.maps,
                           reqs |-> u.w.reqs, left |-> u.w.maps]
    /\ UNCHANGED program

\* gpu_mem_alloc on a fresh gpu_mem_t, then gpu_mem_free on the buffer
CalcAllocFree ==
    /\ calc = NoCalc
    /\ \E size \in {One, U32(0, 100), U32(0, 4097)},
          alignment \in {U32(0, 16), U32(0, 4096)}, flags \in FlagSets :
          \E a \in gpu_mem_alloc(FreshWorld, FirstFd, size, alignment,
                                 flags) :
              /\ a.ret = 0
              /\ \E f \in gpu_mem_free([a.w EXCEPT !.reqs = <<>>], a.mem) :
                    calc' = [fn |-> "gpu_mem_free", size |-> size,
                             alignment |-> alignment, flags |-> flags,
                             buffer |-> a.mem, maps |-> a.w.maps,
                             ret |-> f.ret, mem |-> f.mem,
                             reqs |-> f.w.reqs, left |-> f.w.maps]
    /\ UNCHANGED program

\* physical addresses and 32-bit values beyond the 30 bits of one
PhysAddrs ==
    PhysBases \cup
    {One, U32(1, 0), U32(4660, 22136), U32(16384, 0), U32(16384, 1),
     U32(32768, 0), U32(43981, 61185), U32(49152, 0), U32(49151, 65535)}

\* phys_to_bus(phys, alias) and both translations of the result
CalcBusPhys ==
    /\ calc = NoCalc
    /\ \E phys \in PhysAddrs, alias \in {U32(0, a) : a \in 0..3} :
          LET bus == phys_to_bus(phys, alias)
          IN  calc' = [fn |-> "phys_to_bus", phys |-> phys,
                       alias |-> alias, bus |-> bus,
                       back |-> bus_to_phys(bus),
                       got |-> bus_get_alias(bus)]
    /\ UNCHANGED program

\* for (i = 0; i < num_words; i++) buf[i] = value++;
RECURSIVE fill_loop(_, _, _, _)
fill_loop(buf, i, num_words, value) ==
    IF i < num_words
    THEN fill_loop([buf EXCEPT ![i + 1] = value], i + 1, num_words,
                   Add32(value, One))
    ELSE buf

\* fill_buffer_pattern leaving out the last word
fill_buffer_pattern_skips_last(buf, size_bytes, seed) ==
    fill_loop(buf, 0, (size_bytes \div 4) - 1, seed)

\* static void fill_buffer_pattern(uint32_t *buf, size_t size_bytes,
\*                                 uint32_t seed): the buffer afterwards
fill_buffer_pattern(buf, size_bytes, seed) ==
    fill_loop(buf, 0, size_bytes \div 4, seed)

\* for (i = 0; i < num_words; i++) { if (buf[i] != expected) errors++;
\* expected++; }
RECURSIVE verify_loop(_, _, _, _, _)
verify_loop(buf, i, num_words, expected, errors) ==
    IF i < num_words
    THEN verify_loop(buf, i + 1, num_words, Add32(expected, One),
                     IF buf[i + 1] # expected THEN errors + 1 ELSE errors)
    ELSE errors

\* static int verify_buffer_pattern(const uint32_t *buf, size_t size_bytes,
\*                                  uint32_t seed, const char *name)
verify_buffer_pattern(buf, size_bytes, seed) ==
    IF verify_loop(buf, 0, size_bytes \div 4, seed, 0) = 0 THEN 1 ELSE 0

\* seeds of the pattern, 0x12345678 and values around the wrap-around
Seeds ==
    {Zero, One, U32(4660, 22136), U32(0, 65535), U32(65535, 65534),
     AllOnes}

\* content of the mapped buffer before the pattern is written: zeroes
\* (MEM_FLAG_ZERO, memset) or what an earlier run left
Contents ==
    {[i \in 1..MaxWords |-> Zero], [i \in 1..MaxWords |-> AllOnes],
     [i \in 1..MaxWords |-> U32(4660, 22136 + i)]}

\* fill_buffer_pattern(virt_addr, data_size, seed), then
\* verify_buffer_pattern(virt_addr, data_size, seed, name) on the buffer
\* of a gpu_mem_alloc with the given flags; loads and stores through the
\* one pointer act on the same words whether or not it is mapped O_SYNC
CalcFillVerify ==
    /\ calc = NoCalc
    /\ \E size_bytes \in 0..(4 * MaxWords), seed \in Seeds,
          flags \in FlagSets, content \in Contents :
          LET buf == fill_buffer_pattern(content, size_bytes, seed)
          IN  calc' = [fn |-> "verify_buffer_pattern",
                       size_bytes |-> size_bytes, seed |-> seed,
                       flags |-> flags, buf |-> buf,
                       ret |-> verify_buffer_pattern(buf, size_bytes, seed)]
    /\ UNCHANGED program

\* the process after mbox_open, with nothing allocated or with the block
\* of one mem_alloc
AllocatorWorlds ==
    {FreshWorld} \cup
    {a.w : a \in {x \in mem_alloc(FreshWorld, FirstFd, U32(0, 100),
                                   U32(0, 4096), MEM_FLAG_DIRECT) : x.p.done}}

\* the direct calls <<function, arguments>> of the allocator
MemCalls ==
    ({"alloc"} \X ({Zero, U32(0, 100), AllOnes} \X {U32(0, 16), U32(0, 4096)}
                    \X {MEM_FLAG_DIRECT, MEM_FLAG_COHERENT}))
    \cup ({"lock", "unlock", "free"}
          \X {<<h>> : h \in Handles \cup {Zero, U32(0, 5), AllOnes}})

\* the outcomes of the direct call c in the world w
MemCall(w, c) ==
    CASE c[1] = "alloc"  -> mem_alloc(w, FirstFd, c[2][1], c[2][2], c[2][3])
      [] c[1] = "lock"   -> mem_lock(w, FirstFd, c[2][1])
      [] c[1] = "unlock" -> mem_unlock(w, FirstFd, c[2][1])
      [] c[1] = "free"   -> mem_free(w, FirstFd, c[2][1])

\* one call of mem_alloc, mem_lock, mem_unlock or mem_free: the message
\* it built and the round trip
CalcMemCall ==
    /\ calc = NoCalc
    /\ \E w \in AllocatorWorlds, c \in MemCalls :
          \E r \in MemCall(w, c) :
              calc' = [fn |-> "mem_call", op |-> c[1], args |-> c[2],
                       buf |-> r.buf, ret |-> r.ret, io |-> r.p.ret = 0,
                       code |-> r.p.code, val |-> r.p.val]
    /\ UNCHANGED program

NextCalc ==
    \/ CalcMemCall
    \/ CalcGpuMemAlloc
    \/ CalcMapUnmap
    \/ CalcAllocFree
    \/ CalcBusPhys
    \/ CalcFillVerify

SpecCalc == Init /\ [][NextCalc]_vars

(* ------------------------------------------------------------------ *)
(* main() of the zero-copy benchmark                                   *)
(* ------------------------------------------------------------------ *)

\* data_size: 1 MB, DEFAULT_DATA_SIZE (64 MB) and 256 MB
DataSizes == {U32(16, 0), U32(1024, 0), U32(4096, 0)}

GPU_ALIGNMENT == U32(0, 4096)

\* the buffers of main() that have not been given to gpu_mem_free
Live(b) == Cardinality({i \in 1..Len(b) : b[i] = 0})

\* main: mbox = mbox_open(); return 1 when that failed
main_mbox_open ==
    /\ run.pc = "mbox_open"
    /\ vcio = {}
    /\ \/ mbox' = MBOX_INVALID_HANDLE /\ vcio' = vcio
       \/ mbox' = FirstFd /\ vcio' = {FirstFd}
    /\ rc' = mbox'
    /\ chan' = IF mbox' = MBOX_INVALID_HANDLE THEN chan
               ELSE [chan EXCEPT !.now = @ \ {mbox'}]
    /\ \E data_size \in DataSizes :
          run' = [run EXCEPT !.data_size = data_size,
                             !.opens = @ + 1,
                             !.opened = mbox' # MBOX_INVALID_HANDLE,
                             !.pc = IF mbox' = MBOX_INVALID_HANDLE
                                    THEN "exit" ELSE "standard_copy"]
    /\ UNCHANGED <<mem, fw, maps, reqs, rt, htrace, last, prev, pre, calc,
                   life, mm, launch>>

\* benchmark_standard_copy up to its gpu_mem_alloc: return -1 when
\* aligned_alloc or gpu_mem_alloc failed
benchmark_standard_copy ==
    /\ run.pc = "standard_copy"
    /\ \/ /\ run' = [run EXCEPT !.pc = "zero_copy"]
          /\ UNCHANGED <<mbox, vcio, mem, fw, maps, reqs, rt, htrace, last,
                         prev, pre, rc, chan, calc, life, mm, launch>>
       \/ \E r \in gpu_mem_alloc(World, mbox, run.data_size, GPU_ALIGNMENT,
                                  Or32(MEM_FLAG_COHERENT, MEM_FLAG_ZERO)) :
             /\ Returned("gpu_mem_alloc", r)
             /\ run' = IF r.ret < 0
                       THEN [run EXCEPT !.pc = "zero_copy"]
                       ELSE [run EXCEPT !.pc = "standard_copy_cleanup",
                                        !.bufs = Append(@, 0)]

\* benchmark_standard_copy, cleanup: gpu_mem_free(&gpu_mem)
benchmark_standard_copy_cleanup ==
    /\ run.pc = "standard_copy_cleanup"
    /\ \E r \in gpu_mem_free(World, mem) :
          /\ Returned("gpu_mem_free", r)
          /\ run' = [run EXCEPT !.pc = "zero_copy",
                                !.bufs[Len(run.bufs)] = @ + 1]

\* benchmark_zero_copy up to its gpu_mem_alloc: return -1 when it failed
benchmark_zero_copy ==
    /\ run.pc = "zero_copy"
    /\ \E r \in gpu_mem_alloc(World, mbox, run.data_size, GPU_ALIGNMENT,
                               Or32(MEM_FLAG_DIRECT, MEM_FLAG_ZERO)) :
          /\ Returned("gpu_mem_alloc", r)
          /\ run' = IF r.ret < 0
                    THEN [run EXCEPT !.pc = "mbox_close"]
                    ELSE [run EXCEPT !.pc = "zero_copy_cleanup",
                                     !.bufs = Append(@, 0)]

\* benchmark_zero_copy returning without its cleanup
benchmark_zero_copy_no_cleanup ==
    /\ run.pc = "zero_copy_cleanup"
    /\ run' = [run EXCEPT !.pc = "mbox_close"]
    /\ UNCHANGED <<mbox, vcio, mem, fw, maps, reqs, rt, htrace, last, prev,
                   pre, rc, chan, calc, life, mm, launch>>

\* benchmark_zero_copy, cleanup: gpu_mem_free(&gpu_mem)
benchmark_zero_copy_cleanup ==
    /\ run.pc = "zero_copy_cleanup"
    /\ \E r \in gpu_mem_free(World, mem) :
          /\ Returned("gpu_mem_free", r)
          /\ run' = [run EXCEPT !.pc = "mbox_close",
                                !.bufs[Len(run.bufs)] = @ + 1]

\* main, cleanup: mbox_close(mbox); return 0
main_mbox_close ==
    /\ run.pc = "mbox_close"
    /\ vcio' = mbox_close(vcio, mbox)
    /\ chan' = IF mbox = MBOX_INVALID_HANDLE THEN chan
               ELSE [chan EXCEPT !.ever = @ \cup {mbox},
                                 !.now = @ \cup {mbox}]
    /\ run' = [run EXCEPT !.pc = "exit", !.closes = @ + 1,
                          !.held = Live(run.bufs)]
    /\ UNCHANGED <<mbox, mem, fw, maps, reqs, rt, htrace, last, prev, pre,
                   rc, calc, life, mm, launch>>

NextMain ==
    \/ main_mbox_open
    \/ benchmark_standard_copy
    \/ benchmark_standard_copy_cleanup
    \/ benchmark_zero_copy
    \/ benchmark_zero_copy_cleanup
    \/ main_mbox_close

SpecMain == Init /\ [][NextMain]_vars

(* ------------------------------------------------------------------ *)
(* NEON matrix routines (matmul_neon_omp_v5.c): transpose_matrix,      *)
(* matmul_neon_single, matmul_neon_omp, one loop pass per step.        *)
(* Floats are integers: arithmetic is exact.                           *)
(* ------------------------------------------------------------------ *)

TILE_SIZE == 64

\* float32x4_t vld1q_f32(&M[p])
vld1q_f32(M, p) == <<M[p], M[p + 1], M[p + 2], M[p + 3]>>

\* vst1q_f32(&M[p], v): the array afterwards
vst1q_f32(M, p, v) ==
    [M EXCEPT ![p] = v[1], ![p + 1] = v[2], ![p + 2] = v[3], ![p + 3] = v[4]]

\* float32x4x2_t vtrnq_f32(a, b): <<val[0], val[1]>>
vtrnq_f32(a, b) ==
    << <<a[1], b[1], a[3], b[3]>>, <<a[2], b[2], a[4], b[4]>> >>

vget_low_f32(v) == <<v[1], v[2]>>

vget_high_f32(v) == <<v[3], v[4]>>

vcombine_f32(lo, hi) == <<lo[1], lo[2], hi[1], hi[2]>>

\* vmlaq_lane_f32(acc, b, v, lane): acc + b * v[lane]
vmlaq_lane_f32(acc, b, v, lane) ==
    <<acc[1] + b[1] * v[lane + 1], acc[2] + b[2] * v[lane + 1],
      acc[3] + b[3] * v[lane + 1], acc[4] + b[4] * v[lane + 1]>>

\* vmlaq_n_f32(acc, b, s): acc + b * s
vmlaq_n_f32(acc, b, s) ==
    <<acc[1] + b[1] * s, acc[2] + b[2] * s, acc[3] + b[3] * s,
      acc[4] + b[4] * s>>

\* for (x = lo; ...; x += step) acc = Body(acc, x), cnt passes of it: the
\* first half of the passes, then the rest of them from what those left
RECURSIVE For(_, _, _, _, _)
For(lo, step, cnt, Body(_, _), acc) ==
    IF cnt = 0 THEN acc
    ELSE IF cnt = 1 THEN Body(acc, lo)
    ELSE LET h   == cnt \div 2
             mid == For(lo, step, h, Body, acc)
         IN  IF mid = mid
             THEN For(lo + h * step, step, cnt - h, Body, mid)
             ELSE acc

\* the number of passes of for (x = lo; x < hi; x += step)
Passes(lo, hi, step) ==
    IF hi <= lo THEN 0 ELSE (hi - lo + step - 1) \div step

\* the 4x4 transposition of four loaded rows (vtrnq_f32, vcombine_f32)
transpose_4x4(r0, r1, r2, r3) ==
    LET t01 == vtrnq_f32(r0, r1)
        t23 == vtrnq_f32(r2, r3)
    IN  <<vcombine_f32(vget_low_f32(t01[1]), vget_low_f32(t23[1])),
          vcombine_f32(vget_low_f32(t01[2]), vget_low_f32(t23[2])),
          vcombine_f32(vget_high_f32(t01[1]), vget_high_f32(t23[1])),
          vcombine_f32(vget_high_f32(t01[2]), vget_high_f32(t23[2]))>>

\* kernel_4x4_neon, one pass of the loop over k in steps of 4: the four
\* accumulator rows afterwards
kernel_4x4_neon_k4(A, BT, a, bt, lda, ldbt, k, c) ==
    LET a0 == vld1q_f32(A, a + k)
        a1 == vld1q_f32(A, a + lda + k)
        a2 == vld1q_f32(A, a + 2 * lda + k)
        a3 == vld1q_f32(A, a + 3 * lda + k)
        b  == transpose_4x4(vld1q_f32(BT, bt + k),
                            vld1q_f32(BT, bt + ldbt + k),
                            vld1q_f32(BT, bt + 2 * ldbt + k),
                            vld1q_f32(BT, bt + 3 * ldbt + k))
        row(c_row, av) ==
            vmlaq_lane_f32(
              vmlaq_lane_f32(
                vmlaq_lane_f32(
                  vmlaq_lane_f32(c_row, b[1], vget_low_f32(av), 0),
                  b[2], vget_low_f32(av), 1),
                b[3], vget_high_f32(av), 0),
              b[4], vget_high_f32(av), 1)
    IN  <<row(c[1], a0), row(c[2], a1), row(c[3], a2), row(c[4], a3)>>

\* kernel_4x4_neon, one pass of the remainder loop over k
kernel_4x4_neon_k1(A, BT, a, bt, lda, ldbt, k, c) ==
    LET b_col == <<BT[bt + k], BT[bt + ldbt + k], BT[bt + 2 * ldbt + k],
                   BT[bt + 3 * ldbt + k]>>
    IN  <<vmlaq_n_f32(c[1], b_col, A[a + k]),
          vmlaq_n_f32(c[2], b_col, A[a + lda + k]),
          vmlaq_n_f32(c[3], b_col, A[a + 2 * lda + k]),
          vmlaq_n_f32(c[4], b_col, A[a + 3 * lda + k])>>

\* kernel_4x4_neon(A + a, BT + bt, C + c, lda, ldbt, ldc, K): C afterwards
kernel_4x4_neon(A, BT, C, a, bt, c, lda, ldbt, ldc, K) ==
    LET rows == <<vld1q_f32(C, c), vld1q_f32(C, c + ldc),
                  vld1q_f32(C, c + 2 * ldc), vld1q_f32(C, c + 3 * ldc)>>
        k4   == Passes(0, K - 3, 4)
        v    == For(0, 4, k4,
                    LAMBDA cr, k :
                        kernel_4x4_neon_k4(A, BT, a, bt, lda, ldbt, k, cr),
                    rows)
        r    == For(4 * k4, 1, Passes(4 * k4, K, 1),
                    LAMBDA cr, k :
                        kernel_4x4_neon_k1(A, BT, a, bt, lda, ldbt, k, cr),
                    v)
    IN  vst1q_f32(vst1q_f32(vst1q_f32(vst1q_f32(C, c, r[1]),
                  c + ldc, r[2]), c + 2 * ldc, r[3]), c + 3 * ldc, r[4])

\* matmul_tile, the scalar fallback for an edge micro-tile: C afterwards
matmul_tile_scalar(A, BT, C, n, i, j, i_end, j_end, k0, Tk) ==
    For(i, 1, i_end,
        LAMBDA Ci, ii :
            For(j, 1, j_end,
                LAMBDA Cj, jj :
                    [Cj EXCEPT ![ii * n + jj] =
                        For(k0, 1, Tk,
                            LAMBDA sum, kk :
                                sum + A[ii * n + kk] * BT[jj * n + kk],
                            Cj[ii * n + jj])],
                Ci),
        C)

\* i_end and j_end of matmul_tile: the extent of the micro-tile at x in a
\* tile that starts at x0 and is T wide
micro_extent(x, x0, T) == IF x + 4 <= x0 + T THEN 4 ELSE x0 + T - x

\* matmul_tile, the body of its loops for the micro-tile at (i, j): C
\* afterwards
matmul_tile_body(A, BT, C, n, i, j, i_end, j_end, k0, Tk) ==
    IF i_end = 4 /\ j_end = 4
    THEN kernel_4x4_neon(A, BT, C, i * n + k0, j * n + k0, i * n + j,
                         n, n, n, Tk)
    ELSE matmul_tile_scalar(A, BT, C, n, i, j, i_end, j_end, k0, Tk)

\* the rows of C the body of matmul_tile reads and writes at (i, j)
matmul_tile_body_rows(n, i, j, i_end, j_end) ==
    IF i_end = 4 /\ j_end = 4
    THEN {(i * n + j + r * n) \div n : r \in 0..3}
    ELSE {(ii * n + jj) \div n : ii \in i..(i + i_end - 1),
                                 jj \in j..(j + j_end - 1)}

\* matmul_tile(A, BT, C, n, i0, j0, Ti, Tj, k0, Tk): C afterwards
matmul_tile(A, BT, C, n, i0, j0, Ti, Tj, k0, Tk) ==
    For(i0, 4, Passes(i0, i0 + Ti, 4),
        LAMBDA Ci, i :
            For(j0, 4, Passes(j0, j0 + Tj, 4),
                LAMBDA Cj, j :
                    matmul_tile_body(A, BT, Cj, n, i, j,
                                     micro_extent(i, i0, Ti),
                                     micro_extent(j, j0, Tj), k0, Tk),
                Ci),
        C)

\* the rows of C that matmul_tile(A, BT, C, n, i0, j0, Ti, Tj, ...) reads
\* and writes
matmul_tile_rows(n, i0, j0, Ti, Tj) ==
    UNION {matmul_tile_body_rows(n, i, j, micro_extent(i, i0, Ti),
                                 micro_extent(j, j0, Tj)) :
              i \in {i0 + 4 * x : x \in 0..(Passes(i0, i0 + Ti, 4) - 1)},
              j \in {j0 + 4 * x : x \in 0..(Passes(j0, j0 + Tj, 4) - 1)}}

\* Ti, Tj, Tk: (x0 + T <= n) ? T : (n - x0)
tile_extent(x0, n) == IF x0 + TILE_SIZE <= n THEN TILE_SIZE ELSE n - x0

\* a thread at the first tile of the first of its i-tiles its (no i-tile
\* left: the thread has finished)
first_tile(its) ==
    IF its = <<>> THEN [its |-> <<>>, j0 |-> 0, k0 |-> 0]
    ELSE [its |-> its, j0 |-> 0, k0 |-> 0]

\* the loops over i0, j0 and k0 of matmul_neon_single / matmul_neon_omp:
\* the position after the call of matmul_tile at th
next_tile(th, n) ==
    IF th.k0 + TILE_SIZE < n
    THEN [th EXCEPT !.k0 = @ + TILE_SIZE]
    ELSE IF th.j0 + TILE_SIZE < n
    THEN [th EXCEPT !.j0 = @ + TILE_SIZE, !.k0 = 0]
    ELSE first_tile(Tail(th.its))

\* transpose_matrix, the body of its loops at (i, j): dst afterwards when
\* src and dst are different arrays (same = FALSE) or one array
transpose_matrix_body(src, dst, same, n, i, j) ==
    IF i <= n - 4
    THEN IF j <= n - 4
         THEN LET c == transpose_4x4(vld1q_f32(src, (i + 0) * n + j),
                                     vld1q_f32(src, (i + 1) * n + j),
                                     vld1q_f32(src, (i + 2) * n + j),
                                     vld1q_f32(src, (i + 3) * n + j))
              IN  vst1q_f32(vst1q_f32(vst1q_f32(vst1q_f32(dst,
                      (j + 0) * n + i, c[1]), (j + 1) * n + i, c[2]),
                      (j + 2) * n + i, c[3]), (j + 3) * n + i, c[4])
         ELSE For(i, 1, 4,
                  LAMBDA d, ii :
                      [d EXCEPT ![j * n + ii] =
                          IF same THEN d[ii * n + j] ELSE src[ii * n + j]],
                  dst)
    ELSE [dst EXCEPT ![j * n + i] = src[i * n + j]]

\* transpose_matrix(src, dst, n): dst afterwards; src and dst are different
\* arrays (same = FALSE) or one array, which then is dst
transpose_matrix(src, dst, same, n) ==
    LET i4 == Passes(0, n - 3, 4)
        columns(d, i) ==
            For(4 * i4, 1, Passes(4 * i4, n, 1),
                LAMBDA e, j :
                    transpose_matrix_body(IF same THEN e ELSE src, e, same,
                                          n, i, j),
                For(0, 4, i4,
                    LAMBDA e, j :
                        transpose_matrix_body(IF same THEN e ELSE src, e,
                                              same, n, i, j),
                    d))
        blocks == For(0, 4, i4, LAMBDA d, i : columns(d, i), dst)
    IN  For(4 * i4, 1, Passes(4 * i4, n, 1),
            LAMBDA d, i :
                For(0, 1, n,
                    LAMBDA e, j :
                        transpose_matrix_body(IF same THEN e ELSE src, e,
                                              same, n, i, j),
                    d),
            blocks)

\* the matrices of the caller of matmul: entries in -8 .. 8 that depend
\* on the seed
Matrix(n, seed) ==
    [x \in 0..(n * n - 1) |-> ((x * x + seed * x + (x \div n)) % 17) - 8]

\* the matrix of the caller of transpose_matrix: no two entries are equal
Ramp(n, seed) == [x \in 0..(n * n - 1) |-> seed + x]

\* what malloc'ed and caller-supplied output arrays hold before the call
Uninitialized(n) == [x \in 0..(n * n - 1) |-> 99]

\* matrix dimensions of the matmul calls: 68 has two tiles in each
\* direction, the second a partial one
MatmulDims == {4, 6, 8, 68}

MatmulSeeds(n) == IF n > TILE_SIZE THEN {1} ELSE {1, 2, 3}

\* A of the call in progress (never written)
MatrixA == Matrix(mm.n, mm.seed)

\* B (src of transpose_matrix) as the caller passed it
MatrixB ==
    IF mm.fn = "transpose_matrix" THEN Ramp(mm.n, mm.seed)
    ELSE Matrix(mm.n, mm.seed + 3)

all_but_mm == <<mbox, vcio, mem, fw, maps, reqs, rt, htrace, last, prev, pre,
                rc, chan, calc, life, run, launch>>

\* transpose_matrix(B, BT, n) and transpose_matrix(B, B, n) called
TransposeCall ==
    /\ mm.fn = "none"
    /\ \E n \in 1..MaxN, seed \in {1, 2}, same \in BOOLEAN :
          mm' = [NoMatrixCall EXCEPT
                    !.fn = "transpose_matrix", !.pc = "transpose",
                    !.n = n, !.seed = seed, !.same = same,
                    !.B = Ramp(n, seed),
                    !.BT = IF same THEN <<>> ELSE Uninitialized(n)]
    /\ UNCHANGED all_but_mm

\* matmul_neon_single(A, B, C, n) and matmul_neon_omp(A, B, C, n) called:
\* BT = malloc(...); return when that failed
MatmulCall ==
    /\ mm.fn = "none"
    /\ \E fn \in {"matmul_neon_single", "matmul_neon_omp"},
          n \in MatmulDims, BT \in {"NULL", "BT"} :
          \E seed \in MatmulSeeds(n) :
             mm' = [NoMatrixCall EXCEPT
                       !.fn = fn, !.n = n, !.seed = seed,
                       !.pc = IF BT = "NULL" THEN "failed" ELSE "transpose",
                       !.B = Matrix(n, seed + 3),
                       !.BT = IF BT = "NULL" THEN <<>> ELSE Uninitialized(n),
                       !.C = Uninitialized(n)]
    /\ UNCHANGED all_but_mm

\* transpose_matrix runs to its return (in a matmul call the memset of C
\* is next)
TransposeRun ==
    /\ mm.pc = "transpose"
    /\ LET dst == transpose_matrix(mm.B, IF mm.same THEN mm.B ELSE mm.BT,
                                   mm.same, mm.n)
       IN  mm' = [mm EXCEPT
                    !.B = IF mm.same THEN dst ELSE @,
                    !.BT = IF mm.same THEN @ ELSE dst,
                    !.pc = IF mm.fn = "transpose_matrix" THEN "done"
                           ELSE "memset"]
    /\ UNCHANGED all_but_mm

\* the i-tiles of the loop over i0, in order
ITiles(n) == [x \in 1..Passes(0, n, TILE_SIZE) |-> (x - 1) * TILE_SIZE]

\* schedule(static): the i-tiles are dealt to the threads of the team in
\* contiguous chunks, in order; which[x] is the thread of the x-th i-tile
StaticSchedules(n, team) ==
    {which \in [1..Len(ITiles(n)) -> 1..team] :
        \A x, y \in 1..Len(ITiles(n)) : x <= y => which[x] <= which[y]}

\* every thread runs every i-tile
Chunk_all(n, which, t) == ITiles(n)

\* the i-tiles of thread t, in order
Chunk(n, which, t) ==
    SelectSeq(ITiles(n), LAMBDA i0 : which[(i0 \div TILE_SIZE) + 1] = t)

\* memset(C, 0, ...), then the loop over the i-tiles begins: in
\* matmul_neon_single one thread runs all of them, in matmul_neon_omp a
\* team of threads shares them
MatmulStart ==
    /\ mm.pc = "memset"
    /\ \E team \in 1..MaxThreads :
          \E which \in StaticSchedules(mm.n, team) :
             /\ mm.fn = "matmul_neon_single" => team = 1
             /\ mm' = [mm EXCEPT
                         !.C = [x \in DOMAIN mm.C |-> 0],
                         !.pc = "tiles",
                         !.th = [t \in 1..team |->
                                   first_tile(Chunk(mm.n, which, t))],
                         !.rows = [t \in 1..team |-> {}]]
    /\ UNCHANGED all_but_mm

\* a thread runs matmul_tile for its next tile; the function returns when
\* every thread has run its last
MatmulTile ==
    /\ mm.pc = "tiles"
    /\ \E t \in 1..Len(mm.th) :
          LET th  == mm.th[t]
              i0  == Head(th.its)
              Ti  == tile_extent(i0, mm.n)
              Tj  == tile_extent(th.j0, mm.n)
              Tk  == tile_extent(th.k0, mm.n)
              nxt == [mm.th EXCEPT ![t] = next_tile(th, mm.n)]
          IN  /\ th.its # <<>>
              /\ mm' = [mm EXCEPT
                          !.C = matmul_tile(MatrixA, mm.BT, mm.C, mm.n, i0,
                                            th.j0, Ti, Tj, th.k0, Tk),
                          !.th = nxt,
                          !.rows[t] = @ \cup matmul_tile_rows(mm.n, i0,
                                                 th.j0, Ti, Tj),
                          !.pc = IF \A u \in 1..Len(nxt) : nxt[u].its = <<>>
                                 THEN "done" ELSE "tiles"]
    /\ UNCHANGED all_but_mm

NextMatrix == TransposeCall \/ MatmulCall \/ TransposeRun \/ MatmulStart
              \/ MatmulTile

SpecMatrix == Init /\ [][NextMatrix]_vars

\* matmul_naive(A, B, C, n): C afterwards
matmul_naive(A, B, n) ==
    [x \in 0..(n * n - 1) |->
        For(0, 1, n,
            LAMBDA sum, k : sum + A[(x \div n) * n + k] * B[k * n + (x % n)],
            0)]

\* matmul_neon_single(A, B, C, n) when its malloc succeeded: C afterwards
matmul_neon_single(A, B, C, n) ==
    LET BT == transpose_matrix(B, Uninitialized(n), FALSE, n)
        T  == Passes(0, n, TILE_SIZE)
    IN  For(0, TILE_SIZE, T,
            LAMBDA Ci, i0 :
                For(0, TILE_SIZE, T,
                    LAMBDA Cj, j0 :
                        For(0, TILE_SIZE, T,
                            LAMBDA Ck, k0 :
                                matmul_tile(A, BT, Ck, n, i0, j0,
                                            tile_extent(i0, n),
                                            tile_extent(j0, n), k0,
                                            tile_extent(k0, n)),
                            Cj),
                    Ci),
            [x \in DOMAIN C |-> 0])

(* ------------------------------------------------------------------ *)
(* Kernel launch protocol: Prepared, Enabled, Dispatched, then Completed *)
(* or Failed.                                                           *)
(* ------------------------------------------------------------------ *)

all_but_launch == <<mbox, vcio, mem, fw, maps, reqs, rt, htrace, last, prev,
                    pre, rc, chan, calc, life, run, mm>>

KernelImages == {"magic", "malformed"}

\* what an undefined output word may hold
OutputWords == {Zero, OUTPUT_INITIAL, OUTPUT_MAGIC}

\* the execute request is sent whatever the state of the launch
Dispatchable_always(l) == launch.b[l].st \in {"Idle", "Prepared"}

\* the execute request of launch l may be sent: its buffer is Prepared and
\* the compute units are Enabled
Dispatchable(l) == launch.b[l].st = "Prepared" /\ launch.enabled

\* the device is taken to be free at every time
Outstanding_never == FALSE

\* a kernel is Dispatched and the firmware has not returned
Outstanding == launch.dev.l # 0

\* every return code is taken as success
Surfaced_as_success(code) ==
    [st |-> "Completed", err |-> Zero, valid |-> TRUE]

\* what the caller is told when the execute call returned code
Surfaced(code) ==
    [st |-> IF code = Zero THEN "Completed" ELSE "Failed", err |-> code,
     valid |-> code = Zero]

\* Prepared: the kernel image is copied into the buffer and the uniform
\* block is written with the bus address of the output sub-region
LaunchPrepare ==
    /\ \E l \in Launches, image \in KernelImages :
          /\ launch.b[l].st = "Idle"
          /\ launch' = [launch EXCEPT
                           !.b[l] = [@ EXCEPT !.st = "Prepared",
                                              !.code = image,
                                              !.uniform = OutputBus(l),
                                              !.out = OUTPUT_INITIAL]]
    /\ UNCHANGED all_but_launch

\* Enabled: the compute units are powered (idempotent)
LaunchEnable ==
    /\ launch' = [launch EXCEPT !.enabled = TRUE]
    /\ UNCHANGED all_but_launch

\* Dispatched: the execute request with the code and uniform addresses is
\* sent and the caller blocks; with a kernel outstanding the caller waits
LaunchDispatch ==
    /\ ~Outstanding
    /\ \E l \in Launches :
          /\ Dispatchable(l)
          /\ launch' = [launch EXCEPT
                           !.dev = [l |-> l, code |-> launch.b[l].code,
                                    uniform |-> launch.b[l].uniform],
                           !.b[l] = [@ EXCEPT !.st = "Dispatched",
                                              !.sent = @ + 1,
                                              !.enabled = launch.enabled]]
    /\ UNCHANGED all_but_launch

\* a second dispatch while a kernel is outstanding is rejected: its execute
\* call returns a failure code and the outstanding kernel is left alone
LaunchDispatchRejected ==
    /\ Outstanding
    /\ \E l \in Launches :
          LET told == Surfaced(EXECUTE_FAILED)
          IN  /\ Dispatchable(l)
              /\ launch' = [launch EXCEPT
                               !.b[l] = [@ EXCEPT !.st = told.st,
                                                  !.sent = @ + 1,
                                                  !.enabled = launch.enabled,
                                                  !.rejected = TRUE,
                                                  !.ret = EXECUTE_FAILED,
                                                  !.err = told.err,
                                                  !.valid = told.valid]]
    /\ UNCHANGED all_but_launch

\* the firmware returns from the execute request: on success the kernel
\* has written the output word its uniform block names, on failure the
\* output is undefined; the launch is Completed or Failed by the code
LaunchExecuteReturn ==
    /\ launch.dev.l # 0
    /\ \E code \in IF launch.dev.code = "magic" THEN {Zero, EXECUTE_FAILED}
                    ELSE {EXECUTE_FAILED},
          word \in OutputWords :
          LET l       == launch.dev.l
              told    == Surfaced(code)
              written == [k \in Launches |->
                            IF OutputBus(k) = launch.dev.uniform
                            THEN [launch.b[k] EXCEPT
                                     !.out = IF code = Zero
                                             THEN OUTPUT_MAGIC ELSE word]
                            ELSE launch.b[k]]
          IN  launch' = [launch EXCEPT
                           !.dev = NoDispatch,
                           !.b = [written EXCEPT
                                     ![l] = [@ EXCEPT !.st = told.st,
                                                      !.ret = code,
                                                      !.err = told.err,
                                                      !.valid = told.valid]]]
    /\ UNCHANGED all_but_launch

NextLaunch == LaunchPrepare \/ LaunchEnable \/ LaunchDispatch
              \/ LaunchDispatchRejected \/ LaunchExecuteReturn

SpecLaunch == Init /\ [][NextLaunch]_vars

(* ------------------------------------------------------------------ *)
(* Properties of the zero-copy buffer                                  *)
(* ------------------------------------------------------------------ *)

AllocReturned == last.fn = "gpu_mem_alloc"

AllocFailed == last.fn = "gpu_mem_alloc" /\ last.ret = -1

FreeReturned == last.fn = "gpu_mem_free"

\* the property requests among reqs, in the order they were made
MboxReqs ==
    SelectSeq(reqs, LAMBDA e : e.op \in {"alloc", "lock", "unlock", "free"})

\* [tag, handle, issued] of the requests after the first n
After(r, n) ==
    [i \in 1..(Len(r) - n) |->
        <<r[i + n].op, r[i + n].arg, r[i + n].sent>>]

\* C1: whenever gpu_mem_alloc or gpu_mem_free has returned, a non-zero
\* bus_addr comes with a non-zero mem_handle and a non-NULL virt_addr
\* with a non-zero bus_addr.
C1_StructInvariant ==
    /\ mem.bus_addr # Zero => mem.mem_handle # Zero
    /\ mem.virt_addr # NULL => mem.bus_addr # Zero

\* a gpu_mem_alloc that failed at the map stage has returned
C1_Witness ==
    /\ AllocFailed
    /\ \E i \in 1..Len(reqs) : reqs[i].op = "unlock"

\* C2: gpu_mem_alloc returns 0 only with mem_handle, bus_addr and
\* virt_addr all set, and -1 only with all three cleared.
C2_NoPartialBuffer ==
    AllocReturned =>
        /\ last.ret \in {0, -1}
        /\ last.ret = 0 =>
              /\ mem.mem_handle # Zero
              /\ mem.bus_addr # Zero
              /\ mem.virt_addr # NULL
        /\ last.ret = -1 =>
              /\ mem.mem_handle = Zero
              /\ mem.bus_addr = Zero
              /\ mem.virt_addr = NULL

\* a gpu_mem_alloc that failed at the lock stage has returned
C2_Witness ==
    /\ AllocFailed
    /\ Len(MboxReqs) = 3
    /\ MboxReqs[2].op = "lock"
    /\ ~MboxReqs[2].done

\* C3: a failed gpu_mem_alloc rolls back in reverse order: nothing after
\* a failed allocate, a free of the handle after a failed lock, an unlock
\* and then a free of the handle after a failed mapping.
C3_RollbackOrder ==
    AllocFailed =>
        LET r == MboxReqs
        IN  /\ Len(r) >= 1
            /\ r[1].op = "alloc"
            /\ ~r[1].done => Len(r) = 1
            /\ r[1].done =>
                  /\ Len(r) >= 2
                  /\ r[2].op = "lock"
                  /\ r[2].sent
                  /\ r[2].arg \in Handles
                  /\ pre.fw[r[2].arg].st = "free"
                  /\ ~r[2].done =>
                        After(r, 2) = <<<<"free", r[2].arg, TRUE>>>>
                  /\ r[2].done =>
                        After(r, 2) = << <<"unlock", r[2].arg, TRUE>>,
                                        <<"free", r[2].arg, TRUE>> >>

\* the mapping failed and the rollback has sent unlock and free
C3_Witness ==
    /\ AllocFailed
    /\ Len(MboxReqs) = 4
    /\ MboxReqs[2].done
    /\ MboxReqs[3].op = "unlock"
    /\ MboxReqs[4].op = "free"

\* nothing is allocated, locked or mapped that was not when the call began
NothingNew ==
    /\ \A h \in Handles :
          /\ fw[h].st # "free" => pre.fw[h].st # "free"
          /\ fw[h].st = "locked" => pre.fw[h].st = "locked"
    /\ maps \subseteq pre.maps

\* the firmware carried out every unlock and free request of the call
ReleasesDone ==
    \A i \in 1..Len(reqs) : reqs[i].op \in {"unlock", "free"} => reqs[i].done

FreedBuffer ==
    FreeReturned /\ prev.fn = "gpu_mem_alloc" /\ prev.ret = 0

\* C5: gpu_mem_free on a fully constructed buffer unmaps the mapping,
\* then sends unlock, then free for the handle, whichever of them fail.
C5_TeardownOrder ==
    FreedBuffer =>
        /\ Len(reqs) = 3
        /\ After(reqs, 0) = << <<"munmap", reqs[1].arg, TRUE>>,
                              <<"unlock", reqs[2].arg, TRUE>>,
                              <<"free", reqs[2].arg, TRUE>> >>
        /\ reqs[2].arg \in Handles
        /\ pre.fw[reqs[2].arg].st = "locked"
        /\ \E m \in pre.maps : m.addr = reqs[1].arg /\ m.len = reqs[1].len

\* the unmap and the unlock failed and the free request was sent
C5_Witness ==
    /\ FreedBuffer
    /\ Len(reqs) = 3
    /\ ~reqs[1].done
    /\ ~reqs[2].done
    /\ reqs[3].op = "free"

\* C6: gpu_mem_free returns 0 only if every stage it performed (unmap,
\* unlock, free) succeeded.
C6_FreeReportsFailure ==
    (FreeReturned /\ last.ret = 0) =>
        \A i \in 1..Len(reqs) : reqs[i].done

\* C7: a second gpu_mem_free with no gpu_mem_alloc in between makes no
\* unmap, unlock or free and returns 0.
C7_DoubleFreeNoOp ==
    (FreeReturned /\ prev.fn = "gpu_mem_free") =>
        /\ reqs = <<>>
        /\ last.ret = 0
        /\ fw = pre.fw
        /\ maps = pre.maps

\* a second gpu_mem_free has returned after a first one that failed
C7_Witness ==
    /\ FreeReturned
    /\ prev.fn = "gpu_mem_free"
    /\ prev.ret = -1

\* C8: gpu_mem_free after a failed gpu_mem_alloc makes no unmap, unlock
\* or free and returns 0.
C8_FreeAfterFailedAlloc ==
    (FreeReturned /\ prev.fn = "gpu_mem_alloc" /\ prev.ret = -1) =>
        /\ reqs = <<>>
        /\ last.ret = 0
        /\ fw = pre.fw
        /\ maps = pre.maps

\* gpu_mem_free has returned after a gpu_mem_alloc that rolled back a
\* locked handle
C8_Witness ==
    /\ FreeReturned
    /\ prev.fn = "gpu_mem_alloc"
    /\ prev.ret = -1
    /\ \E h \in Handles :
          /\ Len(htrace[h]) = 4
          /\ htrace[h][4].op = "free"

\* the handle is locked before request i of its trace t
LockedBefore(t, i) ==
    \E j \in 1..(i - 1) :
        /\ t[j].op = "lock"
        /\ t[j].done
        /\ \A k \in (j + 1)..(i - 1) : ~(t[k].op = "unlock" /\ t[k].done)

\* an unlock was requested after the latest lock before request i of t
UnlockRequestedBefore(t, i) ==
    \A j \in 1..(i - 1) :
        (t[j].op = "lock" /\ t[j].done) =>
            \E k \in (j + 1)..(i - 1) : t[k].op = "unlock"

\* the requests for one handle start with its allocation, lock only an
\* allocated handle, unlock only a handle whose lock succeeded, and end
\* with the free request
TraceShape(t) ==
    \A i \in 1..Len(t) :
        /\ (t[i].op = "alloc") <=> (i = 1)
        /\ t[i].op = "lock" => t[1].done
        /\ t[i].op = "unlock" =>
              \E j \in 1..(i - 1) : t[j].op = "lock" /\ t[j].done
        /\ t[i].op = "free" => i = Len(t)

\* C9 as stated: per handle the requests follow allocate -> lock ->
\* unlock -> free, and free is requested only while the handle is not
\* locked.
C9_HandleProtocol ==
    \A h \in Handles :
        /\ TraceShape(htrace[h])
        /\ \A i \in 1..Len(htrace[h]) :
              htrace[h][i].op = "free" => ~LockedBefore(htrace[h], i)

\* C9 amended: per handle the requests follow allocate -> lock -> unlock
\* -> free, and free is requested only for a handle that was never locked
\* or after an unlock request for it, successful or not.
C9_HandleProtocolBestEffort ==
    \A h \in Handles :
        /\ TraceShape(htrace[h])
        /\ \A i \in 1..Len(htrace[h]) :
              htrace[h][i].op = "free" =>
                  UnlockRequestedBefore(htrace[h], i)

\* a handle was locked, its unlock failed and its free was requested
C9_Witness ==
    \E h \in Handles :
        /\ Len(htrace[h]) = 4
        /\ htrace[h][2].done
        /\ htrace[h][3].op = "unlock"
        /\ ~htrace[h][3].done
        /\ htrace[h][4].op = "free"

(* ------------------------------------------------------------------ *)
(* Properties of the allocator's round trips                           *)
(* ------------------------------------------------------------------ *)

\* C10: mem_alloc and mem_lock return 0 when the round trip failed in
\* transport or the response code is not 0x80000000, and the first value
\* word of the response otherwise.
C10_AllocLockResult ==
    rt.op \in {"alloc", "lock"} =>
        rt.ret = IF ~rt.io \/ rt.code # RESPONSE_OK THEN Zero ELSE rt.val

\* mem_lock got a reply with the error code and a non-zero value word
C10_Witness ==
    /\ rt.op = "lock"
    /\ rt.io
    /\ rt.code = RESPONSE_ERROR
    /\ rt.val # Zero
    /\ rt.ret = Zero

\* C11: mem_unlock and mem_free return non-zero whenever the response code
\* is not 0x80000000 (or the round trip failed in transport), and 0 only
\* when the firmware reported success.
C11_UnlockFreeResult ==
    rt.op \in {"unlock", "free"} =>
        /\ (~rt.io \/ rt.code # RESPONSE_OK) => rt.ret # Zero
        /\ rt.ret = Zero => (rt.io /\ rt.code = RESPONSE_OK)

\* C12: an operation given MBOX_INVALID_HANDLE fails without a request
\* to the device: the round trip is not issued, mem_alloc and mem_lock
\* return 0, mem_unlock and mem_free return non-zero, gpu_mem_alloc
\* returns -1 with mem_handle, bus_addr and virt_addr cleared and no
\* mapping made.
C12_InvalidHandleFails ==
    /\ (rt.op # "none" /\ chan.h = MBOX_INVALID_HANDLE) =>
          /\ ~rt.sent
          /\ ~rt.io
          /\ ~rt.done
          /\ rt.op \in {"alloc", "lock"} => rt.ret = Zero
          /\ rt.op \in {"unlock", "free"} => rt.ret # Zero
    /\ (AllocReturned /\ mem.mbox = MBOX_INVALID_HANDLE) =>
          /\ last.ret = -1
          /\ mem.mem_handle = Zero
          /\ mem.bus_addr = Zero
          /\ mem.virt_addr = NULL
          /\ \A i \in 1..Len(reqs) : ~reqs[i].sent
          /\ maps = pre.maps
          /\ fw = pre.fw

\* without a channel, gpu_mem_alloc has returned and mem_free was called
C12_Witness ==
    /\ mbox = MBOX_INVALID_HANDLE
    /\ rt.op = "free"
    /\ chan.h = MBOX_INVALID_HANDLE
    /\ AllocReturned
    /\ mem.mbox = MBOX_INVALID_HANDLE
    /\ Len(reqs) = 1

\* a direct mem_* call has failed without reaching the firmware
DirectCallFailed ==
    /\ ~rt.io
    /\ ~rt.done
    /\ rt.op \in {"alloc", "lock"} => rt.ret = Zero
    /\ rt.op \in {"unlock", "free"} => rt.ret # Zero

\* C13 as stated: a mem_* call with a handle value that was given to
\* mbox_close fails and reaches no device, also when a later mbox_open
\* has returned the same descriptor number.
C13_ClosedHandleFails ==
    (rt.op # "none" /\ chan.closed) => DirectCallFailed

\* C13 amended: a mem_* call with a handle value that was given to
\* mbox_close fails and reaches no device as long as no later mbox_open
\* has returned the same descriptor number.
C13_ClosedHandleFailsUntilReuse ==
    (rt.op # "none" /\ chan.closed /\ ~chan.reopened) => DirectCallFailed

\* a mem_* call issued its ioctl on a closed descriptor
C13_Witness ==
    /\ rt.op # "none"
    /\ chan.closed
    /\ ~chan.reopened
    /\ chan.h = FirstFd
    /\ rt.sent

(* ------------------------------------------------------------------ *)
(* Properties of sizes, addresses and mappings                         *)
(* ------------------------------------------------------------------ *)

\* C14: a buffer created by gpu_mem_alloc with size S and a power-of-two
\* alignment A reports a size that is a multiple of A and at least S.
C14_ReportedSize ==
    (calc.fn = "gpu_mem_alloc" /\ calc.ret = 0) =>
        /\ And32(calc.mem.size, Sub32(calc.alignment, One)) = Zero
        /\ Leq32(calc.size, calc.mem.size)

\* a <= b for sums <<carry, hi16, lo16>>
SumLeq(a, b) ==
    \/ a[1] < b[1]
    \/ a[1] = b[1] /\ a[2] < b[2]
    \/ a[1] = b[1] /\ a[2] = b[2] /\ a[3] <= b[3]

PageMask == Sub32(PAGE_SIZE, One)

\* C15: mapmem_uncached(base, size, .) maps a range that starts at the
\* 4096-byte page enclosing base, is a whole number of pages long and
\* reaches at least to base + size, and it returns the start of the
\* mapping plus base - page_base.
C15_MappedRange ==
    (calc.fn = "mapmem_uncached" /\ calc.ret # NULL) =>
        /\ Cardinality(calc.maps) = 1
        /\ \A m \in calc.maps :
              /\ And32(m.phys, PageMask) = Zero
              /\ Leq32(m.phys, calc.base)
              /\ Leq32(Sub32(calc.base, m.phys), PageMask)
              /\ And32(m.len, PageMask) = Zero
              /\ m.len # Zero
              /\ SumLeq(Sum(calc.base, calc.size), Sum(m.phys, m.len))
              /\ calc.ret = Add32(m.addr, Sub32(calc.base, m.phys))

\* the request at position i of calc.reqs is the munmap of the one mapping
UnmapsTheMapping(i) ==
    /\ Len(calc.reqs) >= i
    /\ calc.reqs[i].op = "munmap"
    /\ Cardinality(calc.maps) = 1
    /\ \A m \in calc.maps :
          /\ calc.reqs[i].arg = m.addr
          /\ calc.reqs[i].len = m.len
    /\ calc.reqs[i].done => calc.left = {}

\* C16: unmapmem(p, size) with the pointer p that mapmem_uncached(base,
\* size, .) returned calls munmap with the start address and the length
\* of the mapping, also when gpu_mem_free calls it on a buffer of
\* gpu_mem_alloc.
C16_UnmapMatchesMap ==
    /\ (calc.fn = "mapmem_uncached" /\ calc.ret # NULL) =>
          UnmapsTheMapping(2)
    /\ calc.fn = "gpu_mem_free" => UnmapsTheMapping(1)

\* a mapping of more than one page from a base inside a page was unmapped
C16_Witness ==
    /\ calc.fn = "mapmem_uncached"
    /\ calc.ret # NULL
    /\ And32(calc.base, PageMask) # Zero
    /\ \E m \in calc.maps : m.len = U32(0, 8192)
    /\ calc.reqs[2].done
    /\ calc.left = {}

\* C17: gpu_mem_alloc maps the buffer with O_SYNC exactly when the alias
\* selection of the flags (bits 2..3) is MEM_FLAG_DIRECT; for normal,
\* coherent and L1-non-allocating the mapping is cached.
C17_UncachedIffDirect ==
    (calc.fn = "gpu_mem_alloc" /\ calc.ret = 0) =>
        /\ calc.maps # {}
        /\ \A m \in calc.maps :
              m.sync <=>
                  And32(calc.flags, MEM_FLAG_L1_NONALLOCATING)
                      = MEM_FLAG_DIRECT

C20_FillThenVerify ==
    calc.fn = "verify_buffer_pattern" =>
        /\ calc.ret = 1
        /\ \A i \in 0..((calc.size_bytes \div 4) - 1) :
              calc.buf[i + 1] = Add32(calc.seed, U32(0, i))

\* a pattern of several words that wraps around 2^32 was verified in a
\* direct buffer that held other data before
C20_Witness ==
    /\ calc.fn = "verify_buffer_pattern"
    /\ calc.size_bytes >= 8
    /\ calc.seed = AllOnes
    /\ calc.flags = Or32(MEM_FLAG_DIRECT, MEM_FLAG_ZERO)
    /\ calc.buf[1] = AllOnes
    /\ calc.buf[2] = Zero
    /\ calc.ret = 1

(* ------------------------------------------------------------------ *)
(* Properties of the result of a failed gpu_mem_alloc                  *)
(* ------------------------------------------------------------------ *)

\* the stage at which the gpu_mem_alloc that issued requests r failed
StageOf(r) ==
    LET p == SelectSeq(r, LAMBDA e : e.op \in {"alloc", "lock"})
    IN  IF Len(p) = 1 THEN "allocate"
        ELSE IF ~p[2].done THEN "lock"
        ELSE "map"

\* what gpu_mem_alloc hands back to its caller
CallerView(ret, m) == <<ret, m.mem_handle, m.bus_addr, m.virt_addr>>

\* the failures of gpu_mem_alloc in the process after mbox_open
FailedAllocs ==
    {r \in UNION {gpu_mem_alloc(FreshWorld, FirstFd, size, alignment, flags) :
                    size \in Sizes, alignment \in Alignments,
                    flags \in FlagSets} : r.ret # 0}

C24_AliasNibble ==
    calc.fn = "phys_to_bus" =>
        /\ calc.got \in {Zero, U32(0, 4), U32(0, 8), U32(0, 12)}
        /\ calc.bus[1] >= 49152 => calc.got = U32(0, 12)

(* ------------------------------------------------------------------ *)
(* Properties of the request messages                                  *)
(* ------------------------------------------------------------------ *)

\* the tag identifier of the protocol for an operation of the allocator
TagOf(op) ==
    CASE op = "alloc"  -> U32(3, 12)
      [] op = "lock"   -> U32(3, 13)
      [] op = "unlock" -> U32(3, 14)
      [] op = "free"   -> U32(3, 15)

\* C30: the message of mem_alloc, mem_lock, mem_unlock and mem_free has
\* word1 = 0, one tag record whose value-buffer size is 4 times the
\* number of its value words (size, alignment, flags, or the handle), the
\* end tag right after them and word0 = the size in bytes of the message
\* up to and including the end tag; the result is the first value word.
C30_MessageLayout ==
    calc.fn = "mem_call" =>
        LET b == calc.buf
            n == IF calc.op = "alloc" THEN 3 ELSE 1
        IN  /\ b[2] = Zero
            /\ b[3] = TagOf(calc.op)
            /\ b[4] = U32(0, 4 * n)
            /\ Len(b) = 5 + n + 1
            /\ SubSeq(b, 6, 5 + n) = calc.args
            /\ b[Len(b)] = Zero
            /\ b[1] = U32(0, 4 * Len(b))
            /\ (calc.io /\ (calc.op \in {"unlock", "free"}
                            \/ calc.code = RESPONSE_OK)) =>
                  calc.ret = calc.val

(* ------------------------------------------------------------------ *)
(* Sequences of calls on one gpu_mem_t                                 *)
(* ------------------------------------------------------------------ *)

\* the firmware holds no allocation and the process no mapping
NothingHeld ==
    /\ \A h \in Handles : fw[h].st = "free"
    /\ maps = {}

\* C27 as stated: after calls of gpu_mem_alloc and gpu_mem_free on one
\* gpu_mem_t that end with a gpu_mem_free and in which every unlock, free
\* and munmap succeeded, the firmware holds no allocation and no mapping
\* remains, also when gpu_mem_alloc was called on a struct holding a buffer.
C27_NothingHeldAfterFree ==
    (FreeReturned /\ life.clean) => NothingHeld

\* C27 amended: the same, for sequences in which gpu_mem_alloc was never
\* called on a struct that held a buffer.
C27_NothingHeldUnlessOverwritten ==
    (FreeReturned /\ life.clean /\ ~life.overwritten) => NothingHeld

\* gpu_mem_free has torn down the buffer of a successful gpu_mem_alloc
\* that followed an earlier gpu_mem_free, and no release has failed
C27_Witness ==
    /\ FreedBuffer
    /\ life.clean
    /\ ~life.overwritten
    /\ Len(reqs) = 3
    /\ \E h \in Handles : Len(htrace[h]) > 4 \/ pre.fw[h].st = "locked"
    /\ NothingHeld

(* ------------------------------------------------------------------ *)
(* The benchmark program                                               *)
(* ------------------------------------------------------------------ *)

\* C29: main() opens the mailbox at most once and, when the open
\* succeeded, has closed it exactly once when it exits; every buffer a
\* successful gpu_mem_alloc handed out is given to gpu_mem_free exactly
\* once and before mbox_close is called, and at no time does the program
\* hold more than one buffer it has not given to gpu_mem_free.
C29_MainLifecycle ==
    /\ run.opens <= 1
    /\ run.closes <= 1
    /\ ~run.opened => run.closes = 0
    /\ (run.pc = "exit" /\ run.opened) => run.closes = 1
    /\ \A i \in 1..Len(run.bufs) : run.bufs[i] <= 1
    /\ Live(run.bufs) <= 1
    /\ run.closes = 1 =>
          /\ run.held = 0
          /\ \A i \in 1..Len(run.bufs) : run.bufs[i] = 1

\* main() has exited after both benchmarks got a buffer
C29_Witness ==
    /\ run.pc = "exit"
    /\ run.closes = 1
    /\ run.bufs = <<1, 1>>

(* ------------------------------------------------------------------ *)
(* Properties of the matrix routines                                   *)
(* ------------------------------------------------------------------ *)

\* dst of the transpose_matrix call
TransposeDst == IF mm.same THEN mm.B ELSE mm.BT

\* x is the transposition of the n x n matrix y
IsTransposeOf(x, y, n) ==
    \A i, j \in 0..(n - 1) : x[j * n + i] = y[i * n + j]

\* C26: when transpose_matrix(src, dst, n) has returned, dst[j*n + i] is
\* the original src[i*n + j] for all i, j, for dst a separate array and for
\* dst the same array as src.
C26_TransposeResult ==
    (mm.fn = "transpose_matrix" /\ mm.pc = "done") =>
        IsTransposeOf(TransposeDst, MatrixB, mm.n)

MatmulReturned ==
    /\ mm.fn \in {"matmul_neon_single", "matmul_neon_omp"}
    /\ mm.pc \in {"done", "failed"}

\* C25: for n a multiple of 4, when matmul_neon_single or matmul_neon_omp
\* has returned, C is what matmul_naive computes.
C25_MatmulEqualsNaive ==
    (MatmulReturned /\ mm.n % 4 = 0) =>
        mm.C = matmul_naive(MatrixA, MatrixB, mm.n)

\* what holds of a call whose malloc of BT succeeded: C is what
\* matmul_naive computes
MatmulEqualsNaiveWhenAllocated ==
    (MatmulReturned /\ mm.pc = "done" /\ mm.n % 4 = 0) =>
        mm.C = matmul_naive(MatrixA, MatrixB, mm.n)

\* C28: in matmul_neon_omp the rows of C one thread reads or writes are
\* rows no other thread reads or writes, B and BT stay as they were when
\* the loop began, and when every thread has finished C is what
\* matmul_neon_single computes, whatever the interleaving.
C28_DisjointRows ==
    (mm.fn = "matmul_neon_omp" /\ mm.pc \in {"tiles", "done"}) =>
        /\ \A t, u \in 1..Len(mm.th) :
              t # u => mm.rows[t] \cap mm.rows[u] = {}
        /\ mm.B = MatrixB
        /\ IsTransposeOf(mm.BT, MatrixB, mm.n)
        /\ mm.pc = "done" =>
              mm.C = matmul_neon_single(MatrixA, MatrixB, Uninitialized(mm.n),
                                        mm.n)

\* two threads have each run the tiles of an i-tile
C28_Witness ==
    /\ mm.fn = "matmul_neon_omp"
    /\ mm.pc = "done"
    /\ Len(mm.th) = 2
    /\ mm.rows[1] # {}
    /\ mm.rows[2] # {}

\* C21: when the execute call of a launch returned a failure code, the
\* launch is Failed and not Completed, the caller is told that code, and
\* the output buffer is not reported as valid.
C21_FailureSurfaced ==
    \A l \in Launches :
        launch.b[l].ret # Zero =>
            /\ launch.b[l].st = "Failed"
            /\ launch.b[l].err = launch.b[l].ret
            /\ ~launch.b[l].valid

\* the execute call of a launch has returned the failure code
C21_Witness ==
    \E l \in Launches :
        /\ launch.b[l].ret = EXECUTE_FAILED
        /\ launch.b[l].st = "Failed"
        /\ ~launch.b[l].rejected

\* C22: a launch has sent an execute request only with its buffer
\* Prepared (kernel image copied, uniform block holding the bus address)
\* and the QPU Enabled; it sends at most one, exactly one once it is
\* Dispatched, Completed or Failed, and none before.
C22_ExecuteOnceAfterPrepareEnable ==
    \A l \in Launches :
        /\ launch.b[l].sent \in {0, 1}
        /\ launch.b[l].sent = 1 <=>
              launch.b[l].st \in {"Dispatched", "Completed", "Failed"}
        /\ launch.b[l].sent = 1 =>
              /\ launch.b[l].code \in KernelImages
              /\ launch.b[l].uniform = OutputBus(l)
              /\ launch.b[l].enabled

\* one launch has Completed and another has Failed
C22_Witness ==
    \E l, k \in Launches :
        /\ launch.b[l].st = "Completed"
        /\ launch.b[k].st = "Failed"
        /\ launch.b[l].sent = 1
        /\ launch.b[k].sent = 1

\* C23: at most one launch is Dispatched; it is the one the device runs,
\* with the addresses of its own request, whatever other dispatches were
\* attempted meanwhile; a Completed launch has the word of its own kernel
\* in its output and a launch that sent no request has its output as
\* prepared.
C23_OneDispatched ==
    /\ Cardinality({l \in Launches : launch.b[l].st = "Dispatched"}) <= 1
    /\ \A l \in Launches :
          /\ launch.b[l].st = "Dispatched" =>
                /\ launch.dev.l = l
                /\ launch.dev.code = launch.b[l].code
                /\ launch.dev.uniform = launch.b[l].uniform
          /\ launch.b[l].st = "Completed" => launch.b[l].out = OUTPUT_MAGIC
          /\ launch.b[l].st = "Prepared" => launch.b[l].out = OUTPUT_INITIAL

\* a dispatch was rejected while another launch was outstanding, and that
\* launch has Completed
C23_Witness ==
    \E l, k \in Launches :
        /\ launch.b[k].rejected
        /\ launch.b[l].st = "Completed"
        /\ launch.b[l].out = OUTPUT_MAGIC

====
